---- MODULE Spec2Model ----
(***************************************************************************)
(* State-machine model of the ListenBrainz scrobbler of Strawberry         *)
(* (src/src/scrobbler/listenbrainzscrobbler.cpp): the scrobble cache, the  *)
(* batch submitter, the submit timer, the OAuth session and its refresh    *)
(* timer, and the now-playing tracking; beside it, a Tidal stream URL      *)
(* request (src/src/tidal/tidalstreamurlrequest.cpp) and the collection    *)
(* (src/src/collection/collection.cpp), each in runs of its own.           *)
(*                                                                         *)
(* The object's members are the variables.  Every handler is a function    *)
(* from the record of the members (Self) to the record after the handler,  *)
(* so that a handler that calls another one (Scrobble -> StartSubmit ->    *)
(* Submit) is one atomic step, as it is on the single Qt event thread.     *)
(***************************************************************************)
EXTENDS Integers, Sequences, FiniteSets, TLC

VARIABLES
  access_token_,          \* QString
  token_type_,            \* QString
  refresh_token_,         \* QString
  expires_in_,            \* int, seconds
  login_time_,            \* quint64, epoch seconds
  store,                  \* QSettings group "ListenBrainz": key -> value, for the keys present
  enabled_,               \* bool
  cache,                  \* ScrobblerCache: the list of cache items, oldest first
  nadded,                 \* number of cache items created so far (their identity)
  submitted_,             \* bool
  submit_error_,          \* bool
  timer_submit_,          \* QTimer, single shot: [active, interval (msec)]
  refresh_login_timer_,   \* QTimer, single shot: [active, interval (msec)]
  replies_,               \* QList<QNetworkReply*>: the outstanding replies
  server_,                \* LocalRedirectServer*: "null" or "listening"
  song_playing_,          \* Song
  scrobbled_,             \* bool
  timestamp_,             \* quint64, epoch seconds
  offline,                \* settings_->offline()
  submit_delay,           \* settings_->submit_delay(), seconds
  now,                    \* QDateTime::currentDateTime().toSecsSinceEpoch()
  tidal,                  \* a TidalStreamURLRequest, its service and what it has emitted
  collection              \* an SCollection: its watcher, its thread, and how it ended

vars == << access_token_, token_type_, refresh_token_, expires_in_, login_time_, store,
           enabled_, cache, nadded, submitted_, submit_error_, timer_submit_,
           refresh_login_timer_, replies_, server_, song_playing_, scrobbled_,
           timestamp_, offline, submit_delay, now, tidal, collection >>

env == << offline, submit_delay, now >>

\* the objects beside the scrobbler
others == << tidal, collection >>

\* an object that does not exist in the run
NotConstructed == "none"

-----------------------------------------------------------------------------
(* Bounds of the model *)

\* cache items created in one run
MaxScrobbles == 3
\* replies outstanding at once
MaxReplies == 2
\* clock ticks in one run
MaxTicks == 2

(* Program constants *)

kScrobblesPerRequest == 10
kMsecPerSec == 1000
\* the floor of the refresh interval in LoadSession, seconds
kMinRefreshSecs == 6
\* StartSubmit's floors of the submit delay, seconds
kSubmitErrorFloorSecs == 30
kSubmitFloorSecs == 5
\* CheckScrobblePrevSong's threshold, seconds
kRadioScrobbleSecs == 30
\* the largest int, in whole seconds of milliseconds: INT_MAX = kIntMaxSecs * 1000 + 647
kIntMaxSecs == 2147483
\* 2^32 = kTwo32Secs * 1000 + 296
kTwo32Secs == 4294967

\* QNetworkReply::NetworkError values the handlers tell apart
NoError == 0
TimeoutError == 4
ContentAccessDenied == 201
ContentOperationNotPermittedError == 202
AuthenticationRequiredError == 204
InternalServerError == 401

\* the epoch second the run starts at
StartTime == 100000

-----------------------------------------------------------------------------
(* Small helpers *)

Max(a, b) == IF a >= b THEN a ELSE b

Range(s) == { s[i] : i \in 1..Len(s) }

RECURSIVE SelectSeqIdx(_, _, _)
\* the sub-sequence of s of the elements whose id is in ids (QList order kept)
SelectSeqIdx(s, ids, i) ==
  IF i > Len(s) THEN << >>
  ELSE IF s[i].id \in ids THEN << s[i] >> \o SelectSeqIdx(s, ids, i + 1)
       ELSE SelectSeqIdx(s, ids, i + 1)

\* static_cast<int>(secs * kMsecPerSec) for a qint64 number of seconds: the low 32
\* bits, as a signed int.  Within +-kIntMaxSecs the product fits; the values of the
\* model above it lie below 2^32 ms and wrap once.
ToIntMsec(secs) ==
  IF secs <= kIntMaxSecs /\ secs >= -kIntMaxSecs THEN secs * kMsecPerSec
  ELSE IF secs > kIntMaxSecs THEN (secs - kTwo32Secs) * kMsecPerSec - 296
  ELSE (secs + kTwo32Secs) * kMsecPerSec + 296

-----------------------------------------------------------------------------
(* Songs.  A Song is known to the scrobbler by its id, its url, whether its      *)
(* metadata is good, whether it is a radio stream, its length and whether it has *)
(* a MusicBrainz recording id.                                                   *)

NoSong == [id |-> -1, url |-> "", good |-> FALSE, radio |-> FALSE, valid |-> FALSE,
           length |-> 0, mbid |-> FALSE]

Track == [id |-> 1, url |-> "file:1", good |-> TRUE, radio |-> FALSE, valid |-> TRUE,
          length |-> 200, mbid |-> TRUE]

Radio == [id |-> 2, url |-> "http:2", good |-> TRUE, radio |-> TRUE, valid |-> TRUE,
          length |-> 0, mbid |-> FALSE]

Untagged == [id |-> 3, url |-> "file:3", good |-> FALSE, radio |-> FALSE, valid |-> TRUE,
             length |-> 100, mbid |-> FALSE]

\* the same collection id as Track, played from another url
TrackMoved == [Track EXCEPT !.url = "file:1b"]

Songs == { Track, Radio, Untagged, TrackMoved }

-----------------------------------------------------------------------------
(* The settings store: QSettings, group "ListenBrainz".  A key is present or not; *)
(* value(key, default) of an absent key is the default.                           *)

EmptyStore == [k \in {} |-> ""]

Value(s, key, default) == IF key \in DOMAIN s THEN s[key] ELSE default

SetValue(s, key, v) == [k \in (DOMAIN s) \cup {key} |-> IF k = key THEN v ELSE s[k]]

Remove(s, key) == [k \in (DOMAIN s) \ {key} |-> s[k]]

-----------------------------------------------------------------------------
(* The members of the object as one record.  Its field ev is the log of the      *)
(* step being taken: what the handler did that the members do not keep (the      *)
(* reply it read, the requests it issued, the signals it emitted).  The log is   *)
(* not part of the state; the properties read it off the handler.                *)

NoEvent(op) ==
  [ op      |-> op,        \* the event handled
    err     |-> -1,        \* reply->error() of the reply handled, -1 when none
    res     |-> "none",    \* the ReplyResult GetJsonObject gave, "none" when none
    items   |-> << >>,     \* cache_items of the scrobble reply handled (ids)
    batch   |-> << >>,     \* cache_items_sent of the Submit() run in this step (ids)
    submits |-> 0,         \* calls of Submit() in this step
    inflight |-> FALSE,    \* submitted_ at the first call of Submit() in this step
    reqs    |-> << >>,     \* the requests issued in this step (kinds), in order
    authed  |-> << >>,     \* authenticated() at each request issued
    auth    |-> << >>,     \* the AuthenticationComplete signals emitted (TRUE/FALSE)
    load    |-> FALSE ]    \* LoadSession ran in this step

Self ==
  [ access_token_ |-> access_token_, token_type_ |-> token_type_,
    refresh_token_ |-> refresh_token_, expires_in_ |-> expires_in_,
    login_time_ |-> login_time_, store |-> store, enabled_ |-> enabled_,
    cache |-> cache, nadded |-> nadded, submitted_ |-> submitted_,
    submit_error_ |-> submit_error_, timer_submit_ |-> timer_submit_,
    refresh_login_timer_ |-> refresh_login_timer_, replies_ |-> replies_,
    server_ |-> server_, song_playing_ |-> song_playing_, scrobbled_ |-> scrobbled_,
    timestamp_ |-> timestamp_, ev |-> NoEvent("none") ]

On(op) == [Self EXCEPT !.ev = NoEvent(op)]

Becomes(st) ==
  /\ access_token_' = st.access_token_
  /\ token_type_' = st.token_type_
  /\ refresh_token_' = st.refresh_token_
  /\ expires_in_' = st.expires_in_
  /\ login_time_' = st.login_time_
  /\ store' = st.store
  /\ enabled_' = st.enabled_
  /\ cache' = st.cache
  /\ nadded' = st.nadded
  /\ submitted_' = st.submitted_
  /\ submit_error_' = st.submit_error_
  /\ timer_submit_' = st.timer_submit_
  /\ refresh_login_timer_' = st.refresh_login_timer_
  /\ replies_' = st.replies_
  /\ server_' = st.server_
  /\ song_playing_' = st.song_playing_
  /\ scrobbled_' = st.scrobbled_
  /\ timestamp_' = st.timestamp_
  /\ UNCHANGED others

\* bool authenticated() const: the session holds an access token
authenticated(st) == st.access_token_ # ""

\* bool enabled() const
enabled(st) == st.enabled_

-----------------------------------------------------------------------------
(* QTimer, single shot.  The handlers set the interval each time they start a    *)
(* timer and never read it, so the model keeps the interval of an active timer  *)
(* only: a stopped or timed-out timer is StoppedTimer.                          *)

StoppedTimer == [active |-> FALSE, interval |-> 0]

\* setInterval(msec); start()
StartTimer(msec) == [active |-> TRUE, interval |-> msec]

\* stop(), or the time-out of the single-shot timer
StopTimer(t) == StoppedTimer


-----------------------------------------------------------------------------
(* ScrobblerCache: the persisted list of cache items.  An item is             *)
(* [id, song, timestamp, length, sent, error]; id stands for the item's       *)
(* identity (the shared pointer), length is in seconds.                       *)

NewItem(n, song, ts) ==
  [id |-> n, song |-> song.id, timestamp |-> ts, length |-> song.length,
   sent |-> FALSE, error |-> FALSE]

Ids(c) == { c[i].id : i \in 1..Len(c) }

\* the item of the cache with this id
Item(c, id) == CHOOSE it \in Range(c) : it.id = id

\* cache_->Add(song, timestamp): appends a new unsent item
CacheAdd(st, song, ts) ==
  [st EXCEPT !.cache = Append(st.cache, NewItem(st.nadded + 1, song, ts)),
             !.nadded = st.nadded + 1]

\* cache_->Count()
CacheCount(st) == Len(st.cache)

\* cache_->Flush(items): removes the items from the list
CacheFlush(st, ids) ==
  [st EXCEPT !.cache = SelectSeqIdx(st.cache, Ids(st.cache) \ Range(ids), 1)]

\* cache_->SetError(items): item->error = true
CacheSetError(st, ids) ==
  [st EXCEPT !.cache = [i \in 1..Len(st.cache) |->
      IF st.cache[i].id \in Range(ids) THEN [st.cache[i] EXCEPT !.error = TRUE]
      ELSE st.cache[i]]]

\* cache_->ClearSent(items): item->sent = false
CacheClearSent(st, ids) ==
  [st EXCEPT !.cache = [i \in 1..Len(st.cache) |->
      IF st.cache[i].id \in Range(ids) THEN [st.cache[i] EXCEPT !.sent = FALSE]
      ELSE st.cache[i]]]

-----------------------------------------------------------------------------
(* Requests and replies *)

\* the smallest reply identity not in use
FreeReply(st) ==
  CHOOSE n \in 1..(Cardinality(st.replies_) + 1) : \A r \in st.replies_ : r.id # n

\* network_->post(...); replies_ << reply
Post(st, kind, items, grant) ==
  [st EXCEPT !.replies_ = st.replies_ \cup
                 {[id |-> FreeReply(st), kind |-> kind, items |-> items, grant |-> grant]},
             !.ev.reqs = Append(st.ev.reqs, kind),
             !.ev.authed = Append(st.ev.authed, authenticated(st))]

\* QNetworkReply *CreateRequest(url, json_doc)
CreateRequest(st, kind, items) == Post(st, kind, items, "")

\* emit AuthenticationComplete(success)
EmitAuthenticationComplete(st, success) ==
  [st EXCEPT !.ev.auth = Append(st.ev.auth, success)]

\* void AuthError(error)
AuthError(st) == EmitAuthenticationComplete(st, FALSE)

-----------------------------------------------------------------------------
(* The batch submitter *)

RECURSIVE SubmitLoop_Resends(_, _, _)
\* the loop without `if (cache_item->sent) continue;'
SubmitLoop_Resends(c, i, sent) ==
  IF i > Len(c) THEN sent
  ELSE IF c[i].error /\ Len(sent) > 0 THEN sent
  ELSE IF Len(sent) + 1 >= kScrobblesPerRequest \/ c[i].error THEN Append(sent, c[i].id)
  ELSE SubmitLoop_Resends(c, i + 1, Append(sent, c[i].id))

RECURSIVE SubmitLoop_NoIsolation(_, _, _)
\* the loop without `if (cache_item->error && cache_items_sent.count() > 0) break;'
SubmitLoop_NoIsolation(c, i, sent) ==
  IF i > Len(c) THEN sent
  ELSE IF c[i].sent THEN SubmitLoop_NoIsolation(c, i + 1, sent)
  ELSE IF Len(sent) + 1 >= kScrobblesPerRequest \/ c[i].error THEN Append(sent, c[i].id)
  ELSE SubmitLoop_NoIsolation(c, i + 1, Append(sent, c[i].id))

RECURSIVE SubmitLoop_BatchesFlagged(_, _, _)
\* the loop without either test of cache_item->error
SubmitLoop_BatchesFlagged(c, i, sent) ==
  IF i > Len(c) THEN sent
  ELSE IF c[i].sent THEN SubmitLoop_BatchesFlagged(c, i + 1, sent)
  ELSE IF Len(sent) + 1 >= kScrobblesPerRequest THEN Append(sent, c[i].id)
  ELSE SubmitLoop_BatchesFlagged(c, i + 1, Append(sent, c[i].id))

RECURSIVE SubmitLoop_CapOffByOne(_, _, _)
\* the loop with `>' for `>=' in the test of kScrobblesPerRequest
SubmitLoop_CapOffByOne(c, i, sent) ==
  IF i > Len(c) THEN sent
  ELSE IF c[i].sent THEN SubmitLoop_CapOffByOne(c, i + 1, sent)
  ELSE IF c[i].error /\ Len(sent) > 0 THEN sent
  ELSE IF Len(sent) + 1 > kScrobblesPerRequest \/ c[i].error THEN Append(sent, c[i].id)
  ELSE SubmitLoop_CapOffByOne(c, i + 1, Append(sent, c[i].id))

RECURSIVE SubmitLoop(_, _, _)
\* the for loop of Submit() over cache_->List(), from item i on, with the ids of
\* cache_items_sent so far: the ids of cache_items_sent when the loop ends
SubmitLoop(c, i, sent) ==
  IF i > Len(c) THEN sent
  ELSE IF c[i].sent THEN SubmitLoop(c, i + 1, sent)
  ELSE IF c[i].error /\ Len(sent) > 0 THEN sent
  ELSE IF Len(sent) + 1 >= kScrobblesPerRequest \/ c[i].error THEN Append(sent, c[i].id)
  ELSE SubmitLoop(c, i + 1, Append(sent, c[i].id))

\* the loop marks every item it takes: cache_item->sent = true
MarkSent(c, ids) ==
  [i \in 1..Len(c) |-> IF c[i].id \in Range(ids) THEN [c[i] EXCEPT !.sent = TRUE] ELSE c[i]]

\* Submit() that tests its preconditions after the loop has marked the batch
Submit_MarksBeforeGate(st) ==
  LET s0 == [st EXCEPT !.ev.submits = st.ev.submits + 1,
                       !.ev.inflight = IF st.ev.submits = 0 THEN st.submitted_
                                       ELSE st.ev.inflight]
      cache_items_sent == SubmitLoop(s0.cache, 1, << >>)
      s1 == [s0 EXCEPT !.cache = MarkSent(s0.cache, cache_items_sent),
                       !.ev.batch = cache_items_sent]
  IN IF ~enabled(s0) \/ ~authenticated(s0) \/ offline THEN s1
     ELSE IF Len(cache_items_sent) <= 0 THEN s1
     ELSE CreateRequest([s1 EXCEPT !.submitted_ = TRUE], "scrobble", cache_items_sent)

\* void Submit()
Submit(st) ==
  LET s0 == [st EXCEPT !.ev.submits = st.ev.submits + 1,
                       !.ev.inflight = IF st.ev.submits = 0 THEN st.submitted_
                                       ELSE st.ev.inflight]
  IN
  IF ~enabled(s0) \/ ~authenticated(s0) \/ offline THEN s0
  ELSE LET cache_items_sent == SubmitLoop(s0.cache, 1, << >>)
           s1 == [s0 EXCEPT !.cache = MarkSent(s0.cache, cache_items_sent),
                            !.ev.batch = cache_items_sent]
       IN IF Len(cache_items_sent) <= 0 THEN s1
          ELSE CreateRequest([s1 EXCEPT !.submitted_ = TRUE], "scrobble", cache_items_sent)

\* StartSubmit that leaves a pending timer running when it submits at once
StartSubmit_KeepsTimer(st, initial) ==
  IF ~st.submitted_ /\ CacheCount(st) > 0 THEN
    IF initial /\ submit_delay <= 0 /\ ~st.submit_error_ THEN Submit(st)
    ELSE IF ~st.timer_submit_.active THEN
      [st EXCEPT !.timer_submit_ =
         StartTimer(ToIntMsec(Max(submit_delay,
                        IF st.submit_error_ THEN kSubmitErrorFloorSecs
                        ELSE kSubmitFloorSecs)))]
    ELSE st
  ELSE st

\* StartSubmit that restarts a timer that is already pending
StartSubmit_Restarts(st, initial) ==
  IF ~st.submitted_ /\ CacheCount(st) > 0 THEN
    IF initial /\ submit_delay <= 0 /\ ~st.submit_error_ THEN
      Submit(IF st.timer_submit_.active
             THEN [st EXCEPT !.timer_submit_ = StopTimer(st.timer_submit_)] ELSE st)
    ELSE
      [st EXCEPT !.timer_submit_ =
         StartTimer(ToIntMsec(Max(submit_delay,
                        IF st.submit_error_ THEN kSubmitErrorFloorSecs
                        ELSE kSubmitFloorSecs)))]
  ELSE st

\* StartSubmit without the immediate path: it always goes by the timer
StartSubmit_AlwaysTimer(st, initial) ==
  IF ~st.submitted_ /\ CacheCount(st) > 0 THEN
    IF ~st.timer_submit_.active THEN
      [st EXCEPT !.timer_submit_ =
         StartTimer(ToIntMsec(Max(submit_delay,
                        IF st.submit_error_ THEN kSubmitErrorFloorSecs
                        ELSE kSubmitFloorSecs)))]
    ELSE st
  ELSE st

\* void StartSubmit(const bool initial)
StartSubmit(st, initial) ==
  IF ~st.submitted_ /\ CacheCount(st) > 0 THEN
    IF initial /\ submit_delay <= 0 /\ ~st.submit_error_ THEN
      Submit(IF st.timer_submit_.active
             THEN [st EXCEPT !.timer_submit_ = StopTimer(st.timer_submit_)] ELSE st)
    ELSE IF ~st.timer_submit_.active THEN
      [st EXCEPT !.timer_submit_ =
         StartTimer(ToIntMsec(Max(submit_delay,
                        IF st.submit_error_ THEN kSubmitErrorFloorSecs
                        ELSE kSubmitFloorSecs)))]
    ELSE st
  ELSE st

\* the value of `initial' in a call StartSubmit() without an argument: the spec
\* names these calls the initial-submit path
StartSubmitDefault == TRUE


-----------------------------------------------------------------------------
(* The session *)

\* void LoadSession()
LoadSession(st) ==
  LET s1 == [st EXCEPT !.access_token_ = Value(st.store, "access_token", ""),
                       !.expires_in_ = Value(st.store, "expires_in", -1),
                       !.token_type_ = Value(st.store, "token_type", ""),
                       !.refresh_token_ = Value(st.store, "refresh_token", ""),
                       !.login_time_ = Value(st.store, "login_time", 0),
                       !.ev.load = TRUE]
      time == s1.expires_in_ - (now - s1.login_time_)
  IN IF s1.refresh_token_ # "" THEN
       [s1 EXCEPT !.refresh_login_timer_ =
          StartTimer(ToIntMsec(IF time < kMinRefreshSecs THEN kMinRefreshSecs ELSE time))]
     ELSE s1

\* void Logout()
Logout(st) ==
  [st EXCEPT !.access_token_ = "",
             !.token_type_ = "",
             !.refresh_token_ = "",
             !.expires_in_ = -1,
             !.login_time_ = 0,
             !.store = Remove(Remove(Remove(Remove(st.store, "access_token"),
                                            "expires_in"), "token_type"), "refresh_token")]

(* A finished reply as the handlers see it: reply->error(), the HTTP status code  *)
(* and the body.  A body is empty, not JSON, or a JSON object (key -> value).     *)

NoObj == [k \in {} |-> ""]

EmptyBody == [json |-> "empty", obj |-> NoObj]
InvalidBody == [json |-> "invalid", obj |-> NoObj]
ObjBody(o) == [json |-> "object", obj |-> o]

\* ExtractJsonObj(data, json_obj, error_description): the data parses to a JSON
\* object that is not empty
ExtractJsonObj(body) == body.json = "object" /\ DOMAIN body.obj # {}

\* the test of line 261 without AuthenticationRequiredError
IsSessionError_NoAuthRequired(error) ==
  \/ error = ContentAccessDenied
  \/ error = ContentOperationNotPermittedError

\* the replies whose error makes GetJsonObject log out
IsSessionError(error) ==
  \/ error = ContentAccessDenied
  \/ error = ContentOperationNotPermittedError
  \/ error = AuthenticationRequiredError

\* GetJsonObject that logs out after every reply whose body it reads
GetJsonObject_LogsOutOnAnyError(st, net) ==
  LET first == IF net.error = NoError /\ net.http = 200 THEN "Success" ELSE "ServerError"
      reads == net.error = NoError \/ net.error >= 200
      parsed == reads /\ net.body.json # "empty" /\ ExtractJsonObj(net.body)
      json_obj == IF parsed THEN net.body.obj ELSE NoObj
      keys == DOMAIN json_obj
      res == IF parsed /\ "error" \in keys /\ "error_description" \in keys THEN "APIError"
             ELSE IF parsed /\ "code" \in keys /\ "error" \in keys THEN "APIError"
             ELSE first
      s1 == IF reads /\ net.error # NoError THEN Logout(st) ELSE st
  IN [res |-> res, obj |-> json_obj,
      st |-> [s1 EXCEPT !.ev.err = net.error, !.ev.res = res]]

\* ReplyResult GetJsonObject(reply, json_obj, error_description):
\* [res: the ReplyResult, obj: json_obj, st: the members afterwards]
GetJsonObject(st, net) ==
  LET first == IF net.error = NoError /\ net.http = 200 THEN "Success" ELSE "ServerError"
      reads == net.error = NoError \/ net.error >= 200
      parsed == reads /\ net.body.json # "empty" /\ ExtractJsonObj(net.body)
      json_obj == IF parsed THEN net.body.obj ELSE NoObj
      keys == DOMAIN json_obj
      res == IF parsed /\ "error" \in keys /\ "error_description" \in keys THEN "APIError"
             ELSE IF parsed /\ "code" \in keys /\ "error" \in keys THEN "APIError"
             ELSE first
      s1 == IF reads /\ IsSessionError(net.error) THEN Logout(st) ELSE st
  IN [res |-> res, obj |-> json_obj,
      st |-> [s1 EXCEPT !.ev.err = net.error, !.ev.res = res]]

\* if (!replies_.contains(reply)) return; replies_.removeAll(reply); ...
TakeReply(st, reply) == [st EXCEPT !.replies_ = st.replies_ \ {reply}]

\* void RequestAccessToken(const QUrl &redirect_url, const QString &code)
RequestAccessToken(st, redirect_url, code) ==
  LET s1 == [st EXCEPT !.refresh_login_timer_ = StopTimer(st.refresh_login_timer_)]
  IN IF code # "" /\ redirect_url # "" THEN Post(s1, "auth", << >>, "authorization_code")
     ELSE IF s1.refresh_token_ # "" /\ s1.enabled_ THEN Post(s1, "auth", << >>, "refresh_token")
     ELSE s1

\* void RequestNewAccessToken(), the slot of refresh_login_timer_: RequestAccessToken()
RequestNewAccessToken(st) == RequestAccessToken(st, "", "")

\* void AuthenticateReplyFinished(QNetworkReply *reply)
AuthenticateReplyFinished(st, reply, net) ==
  IF reply \notin st.replies_ THEN st
  ELSE
  LET got == GetJsonObject(TakeReply(st, reply), net)
      s1 == got.st
      keys == DOMAIN got.obj
  IN IF got.res # "Success" THEN AuthError(s1)
     ELSE IF "access_token" \notin keys \/ "expires_in" \notin keys \/ "token_type" \notin keys
     THEN AuthError(s1)
     ELSE
       LET s2 == [s1 EXCEPT !.access_token_ = got.obj["access_token"],
                            !.expires_in_ = got.obj["expires_in"],
                            !.token_type_ = got.obj["token_type"],
                            !.refresh_token_ = IF "refresh_token" \in keys
                                               THEN got.obj["refresh_token"]
                                               ELSE s1.refresh_token_,
                            !.login_time_ = now]
           s3 == [s2 EXCEPT !.store =
                    SetValue(SetValue(SetValue(SetValue(SetValue(s2.store,
                      "access_token", s2.access_token_),
                      "expires_in", s2.expires_in_),
                      "token_type", s2.token_type_),
                      "refresh_token", s2.refresh_token_),
                      "login_time", s2.login_time_)]
           s4 == IF s3.expires_in_ > 0
                 THEN [s3 EXCEPT !.refresh_login_timer_ = StartTimer(ToIntMsec(s3.expires_in_))]
                 ELSE s3
       IN StartSubmit(EmitAuthenticationComplete(s4, TRUE), StartSubmitDefault)

\* void Authenticate(); listens: whether server_->Listen() succeeds
Authenticate(st, listens) ==
  IF st.server_ = "null" THEN
    IF ~listens THEN AuthError(st)
    ELSE [st EXCEPT !.server_ = "listening"]
  ELSE st

\* void RedirectArrived(); rd: what the redirect server holds:
\* [error: server_->error(), valid: url.isValid(), has_error, has_code: the query
\*  items of the url, code: the value of the code item]
RedirectArrived(st, rd) ==
  IF st.server_ = "null" THEN st
  ELSE
  LET s1 == IF rd.error = "" THEN
              IF rd.valid THEN
                IF rd.has_error THEN AuthError(st)
                ELSE IF rd.has_code THEN RequestAccessToken(st, "http://localhost", rd.code)
                ELSE AuthError(st)
              ELSE AuthError(st)
            ELSE AuthError(st)
  IN [s1 EXCEPT !.server_ = "null"]


-----------------------------------------------------------------------------
(* Play tracking *)

\* Scrobble that does not compare the urls
Scrobble_IgnoresUrl(st, song) ==
  IF song.id # st.song_playing_.id \/ ~song.good THEN st
  ELSE LET s1 == CacheAdd([st EXCEPT !.scrobbled_ = TRUE], song, st.timestamp_)
       IN IF offline \/ ~authenticated(s1) THEN s1
          ELSE StartSubmit(s1, StartSubmitDefault)

\* void Scrobble(const Song &song)
Scrobble(st, song) ==
  IF song.id # st.song_playing_.id \/ song.url # st.song_playing_.url \/ ~song.good THEN st
  ELSE LET s1 == CacheAdd([st EXCEPT !.scrobbled_ = TRUE], song, st.timestamp_)
       IN IF offline \/ ~authenticated(s1) THEN s1
          ELSE StartSubmit(s1, StartSubmitDefault)

\* CheckScrobblePrevSong with `duration >= 30'
CheckScrobblePrevSong_AtThirty(st) ==
  LET d == now - st.timestamp_
      duration == IF d < 0 THEN 0 ELSE d
  IN IF ~st.scrobbled_ /\ st.song_playing_.good /\ st.song_playing_.radio
        /\ duration >= kRadioScrobbleSecs
     THEN Scrobble(st, [st.song_playing_ EXCEPT !.length = duration])
     ELSE st

\* void CheckScrobblePrevSong()
CheckScrobblePrevSong(st) ==
  LET d == now - st.timestamp_
      duration == IF d < 0 THEN 0 ELSE d
  IN IF ~st.scrobbled_ /\ st.song_playing_.good /\ st.song_playing_.radio
        /\ duration > kRadioScrobbleSecs
     THEN Scrobble(st, [st.song_playing_ EXCEPT !.length = duration])
     ELSE st

\* UpdateNowPlaying that returns before it tracks the song when it sends nothing
UpdateNowPlaying_SkipsTracking(st, song) ==
  LET s0 == CheckScrobblePrevSong(st)
      s1 == [s0 EXCEPT !.song_playing_ = song,
                       !.scrobbled_ = FALSE,
                       !.timestamp_ = now]
  IN IF ~song.good \/ ~authenticated(s0) \/ offline THEN s0
     ELSE CreateRequest(s1, "nowplaying", << >>)

\* void UpdateNowPlaying(const Song &song)
UpdateNowPlaying(st, song) ==
  LET s1 == [CheckScrobblePrevSong(st) EXCEPT !.song_playing_ = song,
                                              !.scrobbled_ = FALSE,
                                              !.timestamp_ = now]
  IN IF ~song.good \/ ~authenticated(s1) \/ offline THEN s1
     ELSE CreateRequest(s1, "nowplaying", << >>)

\* void UpdateNowPlayingRequestFinished(QNetworkReply *reply)
UpdateNowPlayingRequestFinished(st, reply, net) ==
  IF reply \notin st.replies_ THEN st
  ELSE GetJsonObject(TakeReply(st, reply), net).st

\* void ClearPlaying()
ClearPlaying(st) ==
  [CheckScrobblePrevSong(st) EXCEPT !.song_playing_ = NoSong,
                                    !.scrobbled_ = FALSE,
                                    !.timestamp_ = 0]

\* ScrobbleRequestFinished that drops the batch after a transport error too
ScrobbleRequestFinished_DropsOnError(st, reply, net) ==
  IF reply \notin st.replies_ THEN st
  ELSE
  LET cache_items == reply.items
      got == GetJsonObject([TakeReply(st, reply) EXCEPT !.submitted_ = FALSE,
                                                        !.ev.items = cache_items], net)
      s1 == got.st
      s2 == IF got.res = "Success"
            THEN [CacheFlush(s1, cache_items) EXCEPT !.submit_error_ = FALSE]
            ELSE LET e == [s1 EXCEPT !.submit_error_ = TRUE]
                 IN IF got.res = "APIError" THEN
                      IF Len(cache_items) = 1 THEN CacheFlush(e, cache_items)
                      ELSE CacheClearSent(CacheSetError(e, cache_items), cache_items)
                    ELSE CacheFlush(e, cache_items)
  IN StartSubmit(s2, StartSubmitDefault)

\* ScrobbleRequestFinished that raises submit_error_ for transport errors only
ScrobbleRequestFinished_NoFlagOnApiError(st, reply, net) ==
  IF reply \notin st.replies_ THEN st
  ELSE
  LET cache_items == reply.items
      got == GetJsonObject([TakeReply(st, reply) EXCEPT !.submitted_ = FALSE,
                                                        !.ev.items = cache_items], net)
      s1 == got.st
      s2 == IF got.res = "Success"
            THEN [CacheFlush(s1, cache_items) EXCEPT !.submit_error_ = FALSE]
            ELSE IF got.res = "APIError" THEN
                   IF Len(cache_items) = 1 THEN CacheFlush(s1, cache_items)
                   ELSE CacheClearSent(CacheSetError(s1, cache_items), cache_items)
                 ELSE CacheClearSent([s1 EXCEPT !.submit_error_ = TRUE], cache_items)
  IN StartSubmit(s2, StartSubmitDefault)

\* ScrobbleRequestFinished without ClearSent after a transport or server error
ScrobbleRequestFinished_KeepsSent(st, reply, net) ==
  IF reply \notin st.replies_ THEN st
  ELSE
  LET cache_items == reply.items
      got == GetJsonObject([TakeReply(st, reply) EXCEPT !.submitted_ = FALSE,
                                                        !.ev.items = cache_items], net)
      s1 == got.st
      s2 == IF got.res = "Success"
            THEN [CacheFlush(s1, cache_items) EXCEPT !.submit_error_ = FALSE]
            ELSE LET e == [s1 EXCEPT !.submit_error_ = TRUE]
                 IN IF got.res = "APIError" THEN
                      IF Len(cache_items) = 1 THEN CacheFlush(e, cache_items)
                      ELSE CacheClearSent(CacheSetError(e, cache_items), cache_items)
                    ELSE e
  IN StartSubmit(s2, StartSubmitDefault)

\* ScrobbleRequestFinished that drops the last record of a rejected batch
ScrobbleRequestFinished_DropsLast(st, reply, net) ==
  IF reply \notin st.replies_ THEN st
  ELSE
  LET cache_items == reply.items
      got == GetJsonObject([TakeReply(st, reply) EXCEPT !.submitted_ = FALSE,
                                                        !.ev.items = cache_items], net)
      s1 == got.st
      s2 == IF got.res = "Success"
            THEN [CacheFlush(s1, cache_items) EXCEPT !.submit_error_ = FALSE]
            ELSE LET e == [s1 EXCEPT !.submit_error_ = TRUE]
                 IN IF got.res = "APIError" THEN
                      IF Len(cache_items) = 1 THEN CacheFlush(e, cache_items)
                      ELSE CacheClearSent(CacheFlush(e, << cache_items[Len(cache_items)] >>), cache_items)
                    ELSE CacheClearSent(e, cache_items)
  IN StartSubmit(s2, StartSubmitDefault)

\* ScrobbleRequestFinished that does not flag the records of a rejected batch
ScrobbleRequestFinished_NoSetError(st, reply, net) ==
  IF reply \notin st.replies_ THEN st
  ELSE
  LET cache_items == reply.items
      got == GetJsonObject([TakeReply(st, reply) EXCEPT !.submitted_ = FALSE,
                                                        !.ev.items = cache_items], net)
      s1 == got.st
      s2 == IF got.res = "Success"
            THEN [CacheFlush(s1, cache_items) EXCEPT !.submit_error_ = FALSE]
            ELSE LET e == [s1 EXCEPT !.submit_error_ = TRUE]
                 IN IF got.res = "APIError" THEN
                      IF Len(cache_items) = 1 THEN CacheFlush(e, cache_items)
                      ELSE CacheClearSent(e, cache_items)
                    ELSE CacheClearSent(e, cache_items)
  IN StartSubmit(s2, StartSubmitDefault)

\* ScrobbleRequestFinished that keeps a record rejected alone, for a retry
ScrobbleRequestFinished_RetriesSingle(st, reply, net) ==
  IF reply \notin st.replies_ THEN st
  ELSE
  LET cache_items == reply.items
      got == GetJsonObject([TakeReply(st, reply) EXCEPT !.submitted_ = FALSE,
                                                        !.ev.items = cache_items], net)
      s1 == got.st
      s2 == IF got.res = "Success"
            THEN [CacheFlush(s1, cache_items) EXCEPT !.submit_error_ = FALSE]
            ELSE LET e == [s1 EXCEPT !.submit_error_ = TRUE]
                 IN IF got.res = "APIError" THEN
                      IF Len(cache_items) = 1 THEN CacheClearSent(CacheSetError(e, cache_items), cache_items)
                      ELSE CacheClearSent(CacheSetError(e, cache_items), cache_items)
                    ELSE CacheClearSent(e, cache_items)
  IN StartSubmit(s2, StartSubmitDefault)

\* void ScrobbleRequestFinished(QNetworkReply *reply, ScrobblerCacheItemPtrList cache_items)
ScrobbleRequestFinished(st, reply, net) ==
  IF reply \notin st.replies_ THEN st
  ELSE
  LET cache_items == reply.items
      got == GetJsonObject([TakeReply(st, reply) EXCEPT !.submitted_ = FALSE,
                                                        !.ev.items = cache_items], net)
      s1 == got.st
      s2 == IF got.res = "Success"
            THEN [CacheFlush(s1, cache_items) EXCEPT !.submit_error_ = FALSE]
            ELSE LET e == [s1 EXCEPT !.submit_error_ = TRUE]
                 IN IF got.res = "APIError" THEN
                      IF Len(cache_items) = 1 THEN CacheFlush(e, cache_items)
                      ELSE CacheClearSent(CacheSetError(e, cache_items), cache_items)
                    ELSE CacheClearSent(e, cache_items)
  IN StartSubmit(s2, StartSubmitDefault)

\* void Love()
Love(st) ==
  IF ~st.song_playing_.valid \/ ~st.song_playing_.good THEN st
  ELSE IF ~st.song_playing_.mbid THEN st
  ELSE CreateRequest(st, "love", << >>)

\* void LoveRequestFinished(QNetworkReply *reply)
LoveRequestFinished(st, reply, net) ==
  IF reply \notin st.replies_ THEN st
  ELSE GetJsonObject(TakeReply(st, reply), net).st

-----------------------------------------------------------------------------
(* What the network and the user can hand to the handlers *)

NetErrors == { NoError, TimeoutError, ContentAccessDenied,
               ContentOperationNotPermittedError, AuthenticationRequiredError,
               InternalServerError }

\* the finished replies with one of these bodies: without a network error the HTTP
\* status is 200 or 500; with one the handlers do not read the status
Nets(bodies) ==
  { [error |-> NoError, http |-> h, body |-> b] : h \in {200, 500}, b \in bodies }
  \cup { [error |-> e, http |-> 0, body |-> b] : e \in NetErrors \ {NoError}, b \in bodies }

StatusOk == ObjBody([status |-> "ok"])
ErrorDescription == ObjBody([error |-> "invalid_grant", error_description |-> "Bad request"])
CodeError == ObjBody([code |-> 400, error |-> "Invalid JSON"])

ApiBodies == { EmptyBody, InvalidBody, StatusOk, ErrorDescription, CodeError }

Token(expires) == ObjBody([access_token |-> "tok", expires_in |-> expires,
                           token_type |-> "Bearer", refresh_token |-> "ref"])
TokenNoRefresh == ObjBody([access_token |-> "tok", expires_in |-> 3600,
                           token_type |-> "Bearer"])
TokenNoExpiry == ObjBody([access_token |-> "tok", token_type |-> "Bearer",
                          refresh_token |-> "ref"])

\* the expires_in values a token endpoint answers with: an hour, none, 25 days
ExpiresValues == { 3600, 0, 2160000 }

TokenBodies == { EmptyBody, ErrorDescription, TokenNoRefresh, TokenNoExpiry }
               \cup { Token(e) : e \in ExpiresValues }

Redirects ==
  { [error |-> "", valid |-> TRUE, has_error |-> FALSE, has_code |-> TRUE, code |-> "c"],
    [error |-> "", valid |-> TRUE, has_error |-> FALSE, has_code |-> TRUE, code |-> ""],
    [error |-> "", valid |-> TRUE, has_error |-> TRUE, has_code |-> FALSE, code |-> ""],
    [error |-> "", valid |-> TRUE, has_error |-> FALSE, has_code |-> FALSE, code |-> ""],
    [error |-> "", valid |-> FALSE, has_error |-> FALSE, has_code |-> FALSE, code |-> ""],
    [error |-> "closed", valid |-> FALSE, has_error |-> FALSE, has_code |-> FALSE,
     code |-> ""] }

SubmitDelays == { 0, 40 }

\* the seconds one tick of the clock takes
TickSecs == 31


-----------------------------------------------------------------------------
(* The state after construction *)

\* the members as the constructor's initialiser list leaves them, over a stored
\* session s and a stored cache c
Constructed(s, c) ==
  [ access_token_ |-> "", token_type_ |-> "", refresh_token_ |-> "", expires_in_ |-> -1,
    login_time_ |-> 0, store |-> s, enabled_ |-> FALSE, cache |-> c, nadded |-> Len(c),
    submitted_ |-> FALSE, submit_error_ |-> FALSE, timer_submit_ |-> StoppedTimer,
    refresh_login_timer_ |-> StoppedTimer, replies_ |-> {}, server_ |-> "null",
    song_playing_ |-> NoSong, scrobbled_ |-> FALSE, timestamp_ |-> 0,
    ev |-> NoEvent("constructor") ]

\* void ReloadSettings(); e: the stored value of "enabled"
ReloadSettings(st, e) == [st EXCEPT !.enabled_ = e]

\* ListenBrainzScrobbler::ListenBrainzScrobbler(...): ReloadSettings(); LoadSession()
Constructor(s, c, e) == LoadSession(ReloadSettings(Constructed(s, c), e))

\* the scrobbler's variables are the members of st
Members(st) ==
  /\ access_token_ = st.access_token_
  /\ token_type_ = st.token_type_
  /\ refresh_token_ = st.refresh_token_
  /\ expires_in_ = st.expires_in_
  /\ login_time_ = st.login_time_
  /\ store = st.store
  /\ enabled_ = st.enabled_
  /\ cache = st.cache
  /\ nadded = st.nadded
  /\ submitted_ = st.submitted_
  /\ submit_error_ = st.submit_error_
  /\ timer_submit_ = st.timer_submit_
  /\ refresh_login_timer_ = st.refresh_login_timer_
  /\ replies_ = st.replies_
  /\ server_ = st.server_
  /\ song_playing_ = st.song_playing_
  /\ scrobbled_ = st.scrobbled_
  /\ timestamp_ = st.timestamp_

\* the variables are the members of st, and no other object exists
Is(st) ==
  /\ Members(st)
  /\ tidal = NotConstructed
  /\ collection = NotConstructed

\* a first start: nothing stored, an empty cache
Init ==
  /\ offline = FALSE
  /\ submit_delay = 0
  /\ now = StartTime
  /\ \E e \in BOOLEAN : Is(Constructor(EmptyStore, << >>, e))

-----------------------------------------------------------------------------
(* The events.  A step is one handled event; the model stops creating cache     *)
(* items at MaxScrobbles and issuing requests at MaxReplies outstanding.         *)

Within(st) ==
  /\ st.nadded <= MaxScrobbles \/ st.nadded = nadded
  /\ Cardinality(st.replies_) <= MaxReplies

Step(st) == Within(st) /\ Becomes(st) /\ UNCHANGED env

DoUpdateNowPlaying(songs) ==
  \E song \in songs : Step(UpdateNowPlaying(On("UpdateNowPlaying"), song))

DoClearPlaying == Step(ClearPlaying(On("ClearPlaying")))

DoScrobble(songs) == \E song \in songs : Step(Scrobble(On("Scrobble"), song))

DoLove == Step(Love(On("Love")))

DoAuthenticate == \E listens \in BOOLEAN : Step(Authenticate(On("Authenticate"), listens))

DoRedirectArrived ==
  /\ server_ # "null"
  /\ \E rd \in Redirects : Step(RedirectArrived(On("RedirectArrived"), rd))

DoLogout == Step(Logout(On("Logout")))

DoReloadSettings == \E e \in BOOLEAN : Step(ReloadSettings(On("ReloadSettings"), e))

DoLoadSession == Step(LoadSession(On("LoadSession")))

\* timer_submit_ times out: the single-shot timer is no longer active, Submit() runs
SubmitTimeout ==
  /\ timer_submit_.active
  /\ Step(Submit([On("SubmitTimeout") EXCEPT !.timer_submit_ = StopTimer(timer_submit_)]))

\* refresh_login_timer_ times out
RefreshTimeout ==
  /\ refresh_login_timer_.active
  /\ Step(RequestNewAccessToken([On("RefreshTimeout") EXCEPT
            !.refresh_login_timer_ = StopTimer(refresh_login_timer_)]))

\* a direct call of the public slot Submit()
DoSubmit == Step(Submit(On("Submit")))

AuthReply(nets) ==
  \E reply \in replies_ : \E net \in nets :
    /\ reply.kind = "auth"
    /\ Step(AuthenticateReplyFinished(On("AuthenticateReplyFinished"), reply, net))

NowPlayingReply(nets) ==
  \E reply \in replies_ : \E net \in nets :
    /\ reply.kind = "nowplaying"
    /\ Step(UpdateNowPlayingRequestFinished(On("UpdateNowPlayingRequestFinished"), reply, net))

ScrobbleReply(nets) ==
  \E reply \in replies_ : \E net \in nets :
    /\ reply.kind = "scrobble"
    /\ Step(ScrobbleRequestFinished(On("ScrobbleRequestFinished"), reply, net))

LoveReply(nets) ==
  \E reply \in replies_ : \E net \in nets :
    /\ reply.kind = "love"
    /\ Step(LoveRequestFinished(On("LoveRequestFinished"), reply, net))

\* the user switches offline mode
SetOffline ==
  /\ offline' = ~offline
  /\ UNCHANGED << access_token_, token_type_, refresh_token_, expires_in_, login_time_,
                  store, enabled_, cache, nadded, submitted_, submit_error_,
                  timer_submit_, refresh_login_timer_, replies_, server_, song_playing_,
                  scrobbled_, timestamp_, submit_delay, now, tidal, collection >>

\* the user changes the submit delay
SetSubmitDelay ==
  /\ \E d \in SubmitDelays : d # submit_delay /\ submit_delay' = d
  /\ UNCHANGED << access_token_, token_type_, refresh_token_, expires_in_, login_time_,
                  store, enabled_, cache, nadded, submitted_, submit_error_,
                  timer_submit_, refresh_login_timer_, replies_, server_, song_playing_,
                  scrobbled_, timestamp_, offline, now, tidal, collection >>

\* time passes
Tick ==
  /\ now < StartTime + MaxTicks * TickSecs
  /\ now' = now + TickSecs
  /\ UNCHANGED << access_token_, token_type_, refresh_token_, expires_in_, login_time_,
                  store, enabled_, cache, nadded, submitted_, submit_error_,
                  timer_submit_, refresh_login_timer_, replies_, server_, song_playing_,
                  scrobbled_, timestamp_, offline, submit_delay, tidal, collection >>

-----------------------------------------------------------------------------
(* The submission pipeline: a returning user (a stored session), the play events, *)
(* the submit timer, the replies, a token refresh, and the settings the pipeline  *)
(* reads.                                                                         *)

StoredSession(expires, refresh, login) ==
  [access_token |-> "tok", expires_in |-> expires, token_type |-> "Bearer",
   refresh_token |-> refresh, login_time |-> login]

InitPipeline ==
  /\ offline = FALSE
  /\ submit_delay = 0
  /\ now = StartTime
  /\ \E e \in BOOLEAN : \E refresh \in {"ref", ""} :
       Is(Constructor(StoredSession(3600, refresh, StartTime), << >>, e))

\* a reply that succeeds, one that times out, one the API rejects, one that ends
\* the session
PipelineNets ==
  { [error |-> NoError, http |-> 200, body |-> StatusOk],
    [error |-> TimeoutError, http |-> 0, body |-> EmptyBody],
    [error |-> InternalServerError, http |-> 0, body |-> CodeError],
    [error |-> AuthenticationRequiredError, http |-> 0, body |-> EmptyBody] }

\* the now-playing replies of the pipeline: one that succeeds, one that ends the session
PipelineNowPlayingNets ==
  { [error |-> NoError, http |-> 200, body |-> StatusOk],
    [error |-> AuthenticationRequiredError, http |-> 0, body |-> EmptyBody] }

PipelineTokenNets ==
  { [error |-> NoError, http |-> 200, body |-> Token(3600)],
    [error |-> TimeoutError, http |-> 0, body |-> EmptyBody] }

Next ==
  \/ DoUpdateNowPlaying({Radio})
  \/ DoClearPlaying
  \/ DoScrobble({Radio})
  \/ SubmitTimeout
  \/ RefreshTimeout
  \/ AuthReply(PipelineTokenNets)
  \/ NowPlayingReply(PipelineNowPlayingNets)
  \/ ScrobbleReply(PipelineNets)
  \/ DoReloadSettings
  \/ SetOffline
  \/ SetSubmitDelay

Spec == InitPipeline /\ [][Next]_vars

-----------------------------------------------------------------------------
(* Reading a step: the step is the handler's when the members become what the    *)
(* handler returns and the settings and the clock stay.                          *)

Took(st) == Becomes(st) /\ UNCHANGED env

\* the ReplyResult GetJsonObject gives this reply
ResultOf(net) == GetJsonObject(Self, net).res

\* the outstanding submission requests
Submissions == { r \in replies_ : r.kind = "scrobble" }

\* the replies the properties consider: those the pipeline is run with
ApiNets == PipelineNets

\* the outcomes after which ScrobbleRequestFinished may drop the batch
Delivered(reply, net) ==
  \/ ResultOf(net) = "Success"
  \/ ResultOf(net) = "APIError" /\ Len(reply.items) = 1

-----------------------------------------------------------------------------
(* C1  At-least-once.  A record leaves the queue only in the handler of the      *)
(* submission response of a batch that holds it, and only when the response is   *)
(* a success or an API error for a batch of one; after every other response      *)
(* every record of the batch is still in the queue with sent = false.            *)

C1_StepKeepsRecords ==
  /\ \A id \in Ids(cache) \ Ids(cache') :
       \E reply \in Submissions : \E net \in ApiNets :
         /\ id \in Range(reply.items)
         /\ Took(ScrobbleRequestFinished(Self, reply, net))
         /\ Delivered(reply, net)
  /\ \A reply \in Submissions \ replies_' : \A net \in ApiNets :
       (Took(ScrobbleRequestFinished(Self, reply, net)) /\ ~Delivered(reply, net))
         => \A id \in Range(reply.items) :
              id \in Ids(cache') /\ ~Item(cache', id).sent

\* C1  At-least-once: in every step, a record leaves the queue only in the handler
\* of the response of a batch that holds it, after a success or an API error for a
\* batch of one; after every other response the records of the batch are still in
\* the queue, unsent
C1_AtLeastOnce == [][C1_StepKeepsRecords]_vars

\* a batch of two was rejected by the API and both records are back in the queue,
\* unsent and flagged
C1_Witness ==
  /\ submit_error_
  /\ ~submitted_
  /\ \E i, j \in 1..Len(cache) :
       i # j /\ cache[i].error /\ cache[j].error /\ ~cache[i].sent /\ ~cache[j].sent

-----------------------------------------------------------------------------
(* C2  Eventual delivery.  Once the service stays enabled, authenticated and     *)
(* online, a non-empty queue is delivered with no further Scrobble or            *)
(* authentication event.  Then the queue is never stranded: whenever it holds    *)
(* records and the service is enabled, authenticated and online, something is    *)
(* pending that will call Submit() or StartSubmit(): the submit timer, a          *)
(* submission in flight, the refresh timer or a token request.                   *)

InitDelivery ==
  /\ offline = FALSE
  /\ submit_delay = 0
  /\ now = StartTime
  /\ \E refresh \in {"ref", ""} :
       Is(Constructor(StoredSession(3600, refresh, StartTime), << >>, TRUE))

\* the pipeline of a service that stays enabled
NextDelivery ==
  \/ DoUpdateNowPlaying({Radio})
  \/ DoClearPlaying
  \/ DoScrobble({Radio})
  \/ SubmitTimeout
  \/ RefreshTimeout
  \/ AuthReply(PipelineTokenNets)
  \/ NowPlayingReply(PipelineNowPlayingNets)
  \/ ScrobbleReply(PipelineNets)
  \/ SetOffline
  \/ SetSubmitDelay

SpecDelivery == InitDelivery /\ [][NextDelivery]_vars

\* the queue holds records, the service is enabled, authenticated and online, and
\* nothing is pending that would submit them
Stranded ==
  /\ cache # << >>
  /\ enabled_ /\ access_token_ # "" /\ ~offline
  /\ ~timer_submit_.active
  /\ ~refresh_login_timer_.active
  /\ \A r \in replies_ : r.kind \notin {"scrobble", "auth"}

\* C2  Eventual delivery needs that a non-empty queue of an enabled, authenticated,
\* online service is never left without a pending timer, submission or token
\* request: from a stranded state no record leaves the queue until the next
\* Scrobble or authentication event
C2_NeverStranded == ~Stranded

-----------------------------------------------------------------------------
\* C3  Single flight: at most one submission request is outstanding, and the
\* submit timer is never armed while one is
C3_SingleFlight ==
  /\ Cardinality(Submissions) <= 1
  /\ Submissions # {} => ~timer_submit_.active

\* a submission is in flight while a record scrobbled after it waits in the queue
C3_Witness ==
  /\ submitted_
  /\ Cardinality(Submissions) = 1
  /\ \E i \in 1..Len(cache) : ~cache[i].sent

-----------------------------------------------------------------------------
(* Submit() is a public slot; here it is also called directly, whatever the      *)
(* state, beside the calls by StartSubmit and the timer.                         *)

NextDirect ==
  \/ DoUpdateNowPlaying({Radio})
  \/ DoScrobble({Radio})
  \/ DoSubmit
  \/ SubmitTimeout
  \/ NowPlayingReply(PipelineNowPlayingNets)
  \/ ScrobbleReply(PipelineNets)
  \/ SetOffline

SpecDirect == InitDelivery /\ [][NextDirect]_vars

\* the ids of the records in the outstanding submission requests
InFlightIds == UNION { Range(r.items) : r \in Submissions }

-----------------------------------------------------------------------------
(* Batch assembly.  The loop of Submit() is a function of the queue; it is run   *)
(* here on queues drawn from a bounded set: every queue of up to MaxShortQueue   *)
(* records with any sent and error flags, and the long queues, of about          *)
(* kScrobblesPerRequest unsent records with at most one record flagged.          *)

\* the length of the queues drawn with any flags
MaxShortQueue == 3
\* the records a long queue holds beyond kScrobblesPerRequest
MaxOver == 2

Flags == { [sent |-> s, error |-> e] : s, e \in BOOLEAN }

Flagged(n, f) == [NewItem(n, Radio, StartTime) EXCEPT !.sent = f.sent, !.error = f.error]

ShortQueues ==
  UNION { { [i \in 1..n |-> Flagged(i, fs[i])] : fs \in [1..n -> Flags] } :
          n \in 0..MaxShortQueue }

LongQueues ==
  { [i \in 1..n |-> IF i = j THEN Flagged(i, f)
                    ELSE Flagged(i, [sent |-> FALSE, error |-> FALSE])] :
      n \in (kScrobblesPerRequest - 1)..(kScrobblesPerRequest + MaxOver),
      j \in 0..(kScrobblesPerRequest + MaxOver),
      f \in Flags }

InitBatch ==
  /\ offline = FALSE
  /\ submit_delay = 0
  /\ now = StartTime
  /\ \E c \in ShortQueues \cup LongQueues :
       Is(Constructor(StoredSession(3600, "ref", StartTime), c, TRUE))

BatchNets ==
  { [error |-> NoError, http |-> 200, body |-> StatusOk],
    [error |-> InternalServerError, http |-> 0, body |-> CodeError] }

\* the token reply that renews the session
BatchTokenNets == { [error |-> NoError, http |-> 200, body |-> Token(3600)] }

\* the stored queue is submitted once the session is renewed
\* (AuthenticateReplyFinished calls StartSubmit), then batch after batch
NextBatch ==
  \/ RefreshTimeout
  \/ AuthReply(BatchTokenNets)
  \/ SubmitTimeout
  \/ ScrobbleReply(BatchNets)

SpecBatch == InitBatch /\ [][NextBatch]_vars

\* the ids of the unsent records, in queue order
Unsent(c) ==
  LET u == SelectSeq(c, LAMBDA it : ~it.sent) IN [i \in 1..Len(u) |-> u[i].id]

\* the batch as the claim describes it: the first unsent record alone when it is
\* error-flagged, else the unsent records before the first error-flagged unsent
\* record, at most kScrobblesPerRequest of them
ExpectedBatch(c) ==
  LET u == Unsent(c)
      flagged == { i \in 1..Len(u) : Item(c, u[i]).error }
      stop == IF flagged = {} THEN Len(u) + 1
              ELSE CHOOSE i \in flagged : \A k \in flagged : i <= k
      n == IF stop - 1 <= kScrobblesPerRequest THEN stop - 1 ELSE kScrobblesPerRequest
  IN IF u = << >> THEN << >>
     ELSE IF stop = 1 THEN << u[1] >>
     ELSE SubSeq(u, 1, n)

\* C5  Error isolation in batch assembly: for every queue, the batch Submit()
\* builds is the first unsent record alone when that record is error-flagged, else
\* the run of unsent non-error records up to the first error-flagged unsent record,
\* capped at 10; no request carries an error-flagged record together with another
C5_ErrorIsolation ==
  /\ SubmitLoop(cache, 1, << >>) = ExpectedBatch(cache)
  /\ \A r \in Submissions :
       /\ \A id \in Range(r.items) : id \in Ids(cache) /\ Item(cache, id).sent
       /\ Len(r.items) > 1 => \A id \in Range(r.items) : ~Item(cache, id).error

\* a request carries the two records before an error-flagged unsent record, which
\* stays behind
C5_Witness ==
  \E r \in Submissions :
    /\ Len(r.items) = 2
    /\ \E i \in 1..Len(cache) :
         /\ cache[i].error /\ ~cache[i].sent
         /\ \A id \in Range(r.items) : id < cache[i].id

\* C6  Batch cap: every submission request carries between 1 and 10 records, and a
\* queue whose first 11 or more records are all unsent and not error-flagged gives
\* a batch of exactly the 10 oldest records
C6_BatchCap ==
  /\ \A r \in Submissions : Len(r.items) >= 1 /\ Len(r.items) <= kScrobblesPerRequest
  /\ (/\ Len(cache) > kScrobblesPerRequest
      /\ \A i \in 1..(kScrobblesPerRequest + 1) : ~cache[i].sent /\ ~cache[i].error)
     => SubmitLoop(cache, 1, << >>) = [i \in 1..kScrobblesPerRequest |-> cache[i].id]

\* a request carries the 10 oldest records of a queue of more than 10, the rest wait
C6_Witness ==
  \E r \in Submissions :
    /\ Len(r.items) = kScrobblesPerRequest
    /\ Len(cache) > kScrobblesPerRequest
    /\ r.items = [i \in 1..kScrobblesPerRequest |-> cache[i].id]
    /\ ~cache[kScrobblesPerRequest + 1].sent

-----------------------------------------------------------------------------
(* The session: a first start or a returning user, the login (Authenticate, the  *)
(* redirect, the token reply), the refresh timer, Logout and LoadSession, and    *)
(* the API requests whose replies can end the session.  The clock moves.         *)

\* nothing stored; a session stored now; one stored 3650 seconds ago; one without a
\* refresh token
StoredSessions ==
  { EmptyStore,
    StoredSession(3600, "ref", StartTime),
    StoredSession(3600, "ref", StartTime - 3650),
    StoredSession(3600, "", StartTime) }

InitSession ==
  /\ offline = FALSE
  /\ submit_delay = 0
  /\ now = StartTime
  /\ \E s \in StoredSessions : \E e \in BOOLEAN : Is(Constructor(s, << >>, e))

\* the replies whose transport error ends the session, with the bodies given
SessionErrors ==
  { ContentAccessDenied, ContentOperationNotPermittedError, AuthenticationRequiredError }

SessionErrorNets(bodies) ==
  { net \in Nets(bodies) : net.error \in SessionErrors }

\* the replies of the API requests: one that succeeds, and the session errors with
\* no body and with an error body
SessionApiNets ==
  { [error |-> NoError, http |-> 200, body |-> StatusOk] }
  \cup SessionErrorNets({EmptyBody, CodeError})

\* the replies of the token endpoint: a token for every expires_in, one without a
\* refresh token, a timeout, a rejected grant, and the session errors with no body,
\* an error body and a token body
SessionTokenNets ==
  { [error |-> NoError, http |-> 200, body |-> b] :
      b \in { Token(e) : e \in ExpiresValues } \cup { TokenNoRefresh } }
  \cup { [error |-> TimeoutError, http |-> 0, body |-> EmptyBody],
         [error |-> NoError, http |-> 500, body |-> ErrorDescription] }
  \cup SessionErrorNets({EmptyBody, ErrorDescription, Token(3600)})

NextSession ==
  \/ DoAuthenticate
  \/ DoRedirectArrived
  \/ AuthReply(SessionTokenNets)
  \/ RefreshTimeout
  \/ DoLogout
  \/ DoLoadSession
  \/ DoReloadSettings
  \/ Tick

SpecSession == InitSession /\ [][NextSession]_vars

\* the session of the members st is empty
EmptySession(st) ==
  /\ st.access_token_ = ""
  /\ st.token_type_ = ""
  /\ st.refresh_token_ = ""
  /\ st.expires_in_ = -1
  /\ st.login_time_ = 0

\* C8  Logout clears every persisted session field as well as the in-memory ones:
\* after Logout(), a following LoadSession() restores an empty session (empty access
\* token, token type and refresh token, expires_in = -1, login_time = 0), whatever
\* session was stored before
C8_LogoutForgetsSession == EmptySession(LoadSession(Logout(Self)))

\* a token request is outstanding
TokenRequestOutstanding == \E r \in replies_ : r.kind = "auth"

\* C9  Refresh-timer invariant: in every reachable state in which the refresh token
\* is non-empty and no token request is outstanding, the refresh timer is armed
C9_RefreshTimerArmed ==
  (refresh_token_ # "" /\ ~TokenRequestOutstanding) => refresh_login_timer_.active

\* C10  Refresh-timer floor: LoadSession() with a non-empty stored refresh token
\* arms the refresh timer for max(6, expires_in - (now - login_time)) seconds, an
\* interval never below 6 seconds and never negative; with an empty refresh token
\* it arms no timer
C10_LoadSessionFloor ==
  LET st == LoadSession(Self)
      time == Value(store, "expires_in", -1) - (now - Value(store, "login_time", 0))
  IN IF Value(store, "refresh_token", "") # ""
     THEN /\ st.refresh_login_timer_.active
          /\ st.refresh_login_timer_.interval % kMsecPerSec = 0
          /\ st.refresh_login_timer_.interval \div kMsecPerSec = Max(kMinRefreshSecs, time)
          /\ st.refresh_login_timer_.interval >= kMinRefreshSecs * kMsecPerSec
     ELSE st.refresh_login_timer_ = refresh_login_timer_

-----------------------------------------------------------------------------
(* The replies: a returning user whose requests of the four kinds (the token     *)
(* refresh, now playing, the submission, love) are answered, among others, by    *)
(* the transport errors that end the session.                                     *)

InitReplies ==
  /\ offline = FALSE
  /\ submit_delay = 0
  /\ now = StartTime
  /\ Is(Constructor(StoredSession(3600, "ref", StartTime), << >>, TRUE))

NextReplies ==
  \/ DoUpdateNowPlaying({Track})
  \/ DoScrobble({Track})
  \/ DoLove
  \/ SubmitTimeout
  \/ RefreshTimeout
  \/ AuthReply(SessionTokenNets)
  \/ NowPlayingReply(SessionApiNets)
  \/ ScrobbleReply(SessionApiNets)
  \/ LoveReply(SessionApiNets)

SpecReplies == InitReplies /\ [][NextReplies]_vars

\* the handler of the finished reply
ReplyFinished(reply, net) ==
  CASE reply.kind = "auth" -> AuthenticateReplyFinished(Self, reply, net)
    [] reply.kind = "nowplaying" -> UpdateNowPlayingRequestFinished(Self, reply, net)
    [] reply.kind = "scrobble" -> ScrobbleRequestFinished(Self, reply, net)
    [] reply.kind = "love" -> LoveRequestFinished(Self, reply, net)

\* C7  Session invalidation: whichever reply handler receives it (token exchange,
\* now playing, scrobble submission, love feedback), a response whose transport
\* error is access-denied, operation-not-permitted or authentication-required leaves
\* the in-memory session cleared: access token, token type and refresh token empty,
\* expires_in = -1, login_time = 0
C7_SessionInvalidation ==
  \A reply \in replies_ :
    \A net \in SessionErrorNets(ApiBodies \cup TokenBodies) :
      EmptySession(ReplyFinished(reply, net))

\* the session that was stored and loaded has been ended by a reply: the members
\* are cleared and the stored tokens removed
C7_Witness ==
  /\ access_token_ = "" /\ token_type_ = "" /\ refresh_token_ = ""
  /\ expires_in_ = -1 /\ login_time_ = 0
  /\ Value(store, "access_token", "") = ""
  /\ Value(store, "login_time", 0) = StartTime

-----------------------------------------------------------------------------
(* Failed authentication *)

\* the session of the members st, in memory and persisted, is the one held now
SameSession(st) ==
  /\ st.access_token_ = access_token_
  /\ st.token_type_ = token_type_
  /\ st.refresh_token_ = refresh_token_
  /\ st.expires_in_ = expires_in_
  /\ st.login_time_ = login_time_
  /\ st.store = store

\* the redirects that carry an error, are invalid or lack a code
FailedRedirects ==
  { rd \in Redirects : rd.error # "" \/ ~rd.valid \/ rd.has_error \/ ~rd.has_code }

\* the token replies that are not a success with access_token, expires_in and
\* token_type
FailedTokenNets ==
  { net \in Nets(TokenBodies) :
      ~(/\ net.error = NoError
        /\ net.http = 200
        /\ {"access_token", "expires_in", "token_type"} \subseteq DOMAIN net.body.obj) }

\* the outstanding token requests
TokenRequests == { r \in replies_ : r.kind = "auth" }

\* a failed redirect signals the failure and leaves the session as it is
FailedRedirectKeepsSession ==
  server_ # "null" =>
    \A rd \in FailedRedirects :
      LET st == RedirectArrived(On("RedirectArrived"), rd)
      IN st.ev.auth = << FALSE >> /\ SameSession(st)

\* C11  Failed authentication leaves the session untouched, as the specification
\* states it: after a redirect that carries an error, is invalid or lacks a code,
\* and after a token exchange that fails (any non-success reply, or a reply missing
\* access_token, expires_in or token_type), the failure is signalled and every
\* in-memory and persisted session field has the value it had before
C11_FailedAuthKeepsSession ==
  /\ FailedRedirectKeepsSession
  /\ \A reply \in TokenRequests : \A net \in FailedTokenNets :
       LET st == AuthenticateReplyFinished(On("AuthenticateReplyFinished"), reply, net)
       IN st.ev.auth = << FALSE >> /\ SameSession(st)

\* C11  Failed authentication, as the code has it: the failure is always signalled;
\* the session keeps its values unless the failed token reply carries the transport
\* error access-denied, operation-not-permitted or authentication-required, after
\* which the in-memory session is empty and the stored tokens are removed
C11_FailedAuthKeepsOrEndsSession ==
  /\ FailedRedirectKeepsSession
  /\ \A reply \in TokenRequests : \A net \in FailedTokenNets :
       LET st == AuthenticateReplyFinished(On("AuthenticateReplyFinished"), reply, net)
       IN /\ st.ev.auth = << FALSE >>
          /\ net.error \notin SessionErrors => SameSession(st)
          /\ net.error \in SessionErrors =>
               /\ EmptySession(st)
               /\ st.store = Remove(Remove(Remove(Remove(store, "access_token"),
                                "expires_in"), "token_type"), "refresh_token")

\* a session is held while a token request is outstanding, and the redirect server
\* is listening: a reply that times out leaves the session, one that the server
\* refuses with authentication-required ends it
C11_Witness ==
  /\ access_token_ # "" /\ refresh_token_ # ""
  /\ server_ # "null"
  /\ \E reply \in TokenRequests :
       /\ SameSession(AuthenticateReplyFinished(Self, reply,
            [error |-> TimeoutError, http |-> 0, body |-> EmptyBody]))
       /\ EmptySession(AuthenticateReplyFinished(Self, reply,
            [error |-> AuthenticationRequiredError, http |-> 0, body |-> EmptyBody]))

-----------------------------------------------------------------------------
(* Play tracking: a user with or without a session plays a track and a radio     *)
(* stream and scrobbles the stream, while the clock moves (forward, and back     *)
(* when it is adjusted).                                                         *)

\* the seconds the clock moves by in one step
ClockSteps == { 15, 30, -15 }

\* the clock stays within MaxElapsed seconds of the start
MaxElapsed == 45

\* time passes (or the clock is set back) by one of these numbers of seconds
Elapse(steps) ==
  /\ \E d \in steps :
       /\ now + d >= StartTime
       /\ now + d <= StartTime + MaxElapsed
       /\ now' = now + d
  /\ UNCHANGED << access_token_, token_type_, refresh_token_, expires_in_, login_time_,
                  store, enabled_, cache, nadded, submitted_, submit_error_,
                  timer_submit_, refresh_login_timer_, replies_, server_, song_playing_,
                  scrobbled_, timestamp_, offline, submit_delay, tidal, collection >>

InitPlay ==
  /\ offline = FALSE
  /\ submit_delay = 0
  /\ now = StartTime
  /\ \E s \in { EmptyStore, StoredSession(3600, "", StartTime) } :
       Is(Constructor(s, << >>, TRUE))

\* the reply that accepts an API request
AcceptedNets == { [error |-> NoError, http |-> 200, body |-> StatusOk] }

NextPlay ==
  \/ DoUpdateNowPlaying({Radio, Track})
  \/ DoClearPlaying
  \/ DoScrobble({Radio})
  \/ NowPlayingReply(AcceptedNets)
  \/ ScrobbleReply(AcceptedNets)
  \/ Elapse(ClockSteps)

SpecPlay == InitPlay /\ [][NextPlay]_vars

\* the records of a queue without their flags
Unflagged(c) ==
  [i \in 1..Len(c) |-> [id |-> c[i].id, song |-> c[i].song,
                        timestamp |-> c[i].timestamp, length |-> c[i].length]]

\* the seconds the tracked item has been tracked for
Elapsed == Max(0, now - timestamp_)

\* the members st are those after a step that enqueued exactly one record, for
\* this song with this duration, stamped with the tracked-start time
EnqueuedOne(st, song, length) ==
  /\ Len(st.cache) = Len(cache) + 1
  /\ SubSeq(Unflagged(st.cache), 1, Len(cache)) = Unflagged(cache)
  /\ LET it == st.cache[Len(st.cache)]
     IN /\ it.id \notin Ids(cache)
        /\ it.song = song.id
        /\ it.timestamp = timestamp_
        /\ it.length = length

\* the members st are those after a step that enqueued and removed nothing
EnqueuedNone(st) == Unflagged(st.cache) = Unflagged(cache)

\* what the claim says of the queue after the tracked item was replaced
DerivedScrobble(st) ==
  IF song_playing_.radio /\ song_playing_.good /\ ~scrobbled_ /\ Elapsed > 30
  THEN EnqueuedOne(st, song_playing_, Elapsed)
  ELSE EnqueuedNone(st)

\* C12  Derived scrobble: when UpdateNowPlaying or ClearPlaying replaces a tracked
\* item that is radio-type, has good metadata and was not scrobbled, exactly one
\* record is enqueued for it iff elapsed = max(0, now - tracked-start-time) > 30,
\* with elapsed as its duration; an item that is not radio-type or was scrobbled
\* never produces a derived record
C12_DerivedScrobble ==
  /\ DerivedScrobble(ClearPlaying(Self))
  /\ \A song \in Songs : DerivedScrobble(UpdateNowPlaying(Self, song))

\* the queue holds the record derived for the radio stream after 45 seconds
C12_Witness ==
  \E i \in 1..Len(cache) :
    cache[i].song = Radio.id /\ cache[i].length = 45 /\ cache[i].timestamp = StartTime

-----------------------------------------------------------------------------
(* Tracking and the gates: a user with or without a session plays, scrobbles and *)
(* loves tracks, streams and untagged files, online and offline; a reply may end *)
(* the session.                                                                  *)

InitTrack ==
  /\ offline = FALSE
  /\ submit_delay = 0
  /\ now = StartTime
  /\ \E s \in { EmptyStore, StoredSession(3600, "", StartTime) } :
       Is(Constructor(s, << >>, TRUE))

\* the replies of the API requests: accepted, or the session is ended
TrackNets ==
  AcceptedNets \cup { [error |-> AuthenticationRequiredError, http |-> 0, body |-> EmptyBody] }

NextTrack ==
  \/ DoUpdateNowPlaying(Songs)
  \/ DoClearPlaying
  \/ DoScrobble(Songs)
  \/ DoLove
  \/ SubmitTimeout
  \/ NowPlayingReply(TrackNets)
  \/ ScrobbleReply(TrackNets)
  \/ LoveReply(TrackNets)
  \/ SetOffline

SpecTrack == InitTrack /\ [][NextTrack]_vars

\* the item matches the tracked item by id and url and has good metadata
Accepted(song) ==
  song.id = song_playing_.id /\ song.url = song_playing_.url /\ song.good

\* C13  Scrobble acceptance: Scrobble(item) appends exactly one unsent record to
\* the tail of the queue iff the item has the id and the url of the tracked item
\* and good metadata, offline and unauthenticated included (the record is marked
\* sent in the same step only by the submission the Scrobble triggers); in every
\* other case Scrobble changes neither the queue nor the scrobbled flag and
\* triggers no submission
C13_ScrobbleAcceptance ==
  \A song \in Songs :
    LET st == Scrobble(On("Scrobble"), song)
        it == st.cache[Len(st.cache)]
    IN IF Accepted(song)
       THEN /\ EnqueuedOne(st, song, song.length)
            /\ st.scrobbled_
            /\ ~it.error
            /\ it.sent => it.id \in Range(st.ev.batch)
            /\ (offline \/ access_token_ = "") => (~it.sent /\ st.ev.submits = 0)
       ELSE /\ st.cache = cache
            /\ st.scrobbled_ = scrobbled_
            /\ st.ev.submits = 0
            /\ st.replies_ = replies_
            /\ st.timer_submit_ = timer_submit_

\* a user who never had a session has scrobbled the track playing: the record
\* waits in the queue, unsent
C13_Witness ==
  /\ store = EmptyStore /\ access_token_ = ""
  /\ song_playing_ = Track /\ scrobbled_
  /\ cache # << >> /\ cache[1].song = Track.id /\ ~cache[1].sent

-----------------------------------------------------------------------------
(* The scheduler *)

\* the token replies that are a success with access_token, expires_in, token_type
SuccessTokenNets == Nets(TokenBodies) \ FailedTokenNets

\* no submission is in flight, no delay is configured, the last submission did
\* not fail
InitialConditions == ~submitted_ /\ submit_delay <= 0 /\ ~submit_error_

\* the step issued a submission request, and left no submit timer pending
IssuedAtOnce(st) ==
  /\ \E r \in st.replies_ \ replies_ : r.kind = "scrobble" /\ r.items # << >>
  /\ st.ev.submits = 1
  /\ st.submitted_
  /\ ~st.timer_submit_.active

Unchanged(st) == [st EXCEPT !.ev = NoEvent("none")] = Self

\* C15  Scheduler immediate path: StartSubmit with initial = true, no submission in
\* flight, a non-empty queue, submit delay <= 0 and the last-submit-error flag
\* clear stops any pending submit timer and calls Submit() in the same step; no
\* call of StartSubmit leaves both a pending timer and a freshly issued submission
C15_ImmediatePath ==
  /\ (cache # << >> /\ InitialConditions) =>
       LET st == StartSubmit(On("StartSubmit"), TRUE)
       IN /\ ~st.timer_submit_.active
          /\ st.ev.submits = 1
          /\ [st EXCEPT !.ev = NoEvent("none")] =
               [Submit([On("StartSubmit") EXCEPT !.timer_submit_ = StoppedTimer])
                  EXCEPT !.ev = NoEvent("none")]
  /\ \A initial \in BOOLEAN :
       LET st == StartSubmit(On("StartSubmit"), initial)
       IN ~(st.timer_submit_.active /\ st.replies_ # replies_)

\* the submit timer is pending (it was armed under a delay since set to 0) while
\* records wait and nothing is in flight: the immediate path stops it and submits
C15_Witness ==
  /\ timer_submit_.active
  /\ cache # << >> /\ InitialConditions
  /\ enabled_ /\ access_token_ # "" /\ ~offline
  /\ LET st == StartSubmit(On("StartSubmit"), TRUE)
     IN ~st.timer_submit_.active /\ st.replies_ # replies_

\* the seconds the delayed path waits
SubmitDelaySecs ==
  Max(submit_delay, IF submit_error_ THEN kSubmitErrorFloorSecs ELSE kSubmitFloorSecs)

\* C16  Scheduler delayed path: when StartSubmit runs with no submission in flight
\* and a non-empty queue and does not take the immediate path, it arms a one-shot
\* timer for max(configured delay, 30 if the previous submission errored else 5)
\* seconds if none is armed, and leaves an armed timer and its interval unchanged;
\* when a submission is in flight or the queue is empty it does nothing
C16_DelayedPath ==
  \A initial \in BOOLEAN :
    LET st == StartSubmit(On("StartSubmit"), initial)
        immediate == initial /\ submit_delay <= 0 /\ ~submit_error_
    IN IF submitted_ \/ cache = << >> THEN Unchanged(st) /\ st.ev.submits = 0
       ELSE IF immediate THEN TRUE
       ELSE IF timer_submit_.active THEN Unchanged(st) /\ st.ev.submits = 0
       ELSE /\ st.timer_submit_ = [active |-> TRUE,
                                   interval |-> SubmitDelaySecs * kMsecPerSec]
            /\ Unchanged([st EXCEPT !.timer_submit_ = timer_submit_])
            /\ st.ev.submits = 0

\* after a failed submission under a delay of 40 seconds the timer is armed for 40
\* seconds, and after one under no delay for the floor of 30 seconds
C16_Witness ==
  /\ submit_error_ /\ ~submitted_ /\ cache # << >>
  /\ timer_submit_.active
  /\ timer_submit_.interval = SubmitDelaySecs * kMsecPerSec
  /\ timer_submit_.interval = kSubmitErrorFloorSecs * kMsecPerSec

-----------------------------------------------------------------------------
(* The requests to the submission API *)

ApiRequests == { "nowplaying", "scrobble", "love" }

\* every request to the submission API issued in the step was issued while
\* authenticated() held
Gated(st) ==
  \A i \in 1..Len(st.ev.reqs) : st.ev.reqs[i] \in ApiRequests => st.ev.authed[i]

\* C17  Authentication gate: no request to the remote submission API (now-playing
\* notification, listen submission, love feedback) is issued in a state where
\* authenticated() is false
C17_AuthenticationGate ==
  /\ \A song \in Songs :
       /\ Gated(UpdateNowPlaying(On("UpdateNowPlaying"), song))
       /\ Gated(Scrobble(On("Scrobble"), song))
  /\ Gated(ClearPlaying(On("ClearPlaying")))
  /\ Gated(Submit(On("Submit")))
  /\ \A initial \in BOOLEAN : Gated(StartSubmit(On("StartSubmit"), initial))
  /\ \A reply \in replies_ : \A net \in TrackNets :
       Gated(ReplyFinished(reply, net))
  /\ Gated(Love(On("Love")))

\* C18  UpdateNowPlaying(item) always replaces the tracked item with the new item,
\* resets the scrobbled flag and stamps the tracked-start time with the current
\* time, also when the now-playing notification is skipped because the metadata is
\* incomplete, the session is unauthenticated or offline mode is on; in those three
\* cases no now-playing request is issued
C18_UpdateNowPlayingTracks ==
  \A song \in Songs :
    LET st == UpdateNowPlaying(On("UpdateNowPlaying"), song)
    IN /\ st.song_playing_ = song
       /\ ~st.scrobbled_
       /\ st.timestamp_ = now
       /\ (~song.good \/ access_token_ = "" \/ offline) =>
            /\ "nowplaying" \notin Range(st.ev.reqs)
            /\ \A r \in st.replies_ \ replies_ : r.kind # "nowplaying"

\* a song with incomplete metadata is tracked while offline, after another song was
\* scrobbled, and no now-playing request is outstanding for it
C18_Witness ==
  /\ offline
  /\ song_playing_ = Untagged /\ ~scrobbled_ /\ timestamp_ = now
  /\ cache # << >>
  /\ \A r \in replies_ : r.kind # "nowplaying"

-----------------------------------------------------------------------------
(* Reconciliation of a failed submission *)

\* the records of c that are not in the batch, in queue order
Outside(c, batch) == SelectSeq(c, LAMBDA it : it.id \notin Range(batch))

\* every reply the network can give to a submission
AnyNets == Nets(ApiBodies)

\* C19  Retryable failure reconciliation: after an API error for a batch of two or
\* more records every record of the batch is in the queue with error = true and
\* sent = false; after a transport or server error for a batch of any size every
\* record of the batch is in the queue with sent = false and its error flag as
\* before; in both cases the records outside the batch are unchanged
C19_RetryableFailure ==
  \A reply \in Submissions : \A net \in AnyNets :
    LET st == ScrobbleRequestFinished(On("ScrobbleRequestFinished"), reply, net)
        batch == reply.items
    IN /\ (st.ev.res = "APIError" /\ Len(batch) >= 2) =>
            /\ \A id \in Range(batch) :
                 /\ id \in Ids(st.cache)
                 /\ Item(st.cache, id).error /\ ~Item(st.cache, id).sent
            /\ Outside(st.cache, batch) = Outside(cache, batch)
       /\ st.ev.res \notin { "Success", "APIError" } =>
            /\ \A id \in Range(batch) :
                 /\ id \in Ids(st.cache)
                 /\ ~Item(st.cache, id).sent
                 /\ Item(st.cache, id).error = Item(cache, id).error
            /\ Outside(st.cache, batch) = Outside(cache, batch)

\* a batch of two unflagged records is in flight while another record waits: an API
\* error flags the two and leaves the other, and a timeout leaves all flags as they
\* were
C19_Witness ==
  \E reply \in Submissions :
    /\ Len(reply.items) >= 2
    /\ Outside(cache, reply.items) # << >>
    /\ \A id \in Range(reply.items) : Item(cache, id).sent /\ ~Item(cache, id).error
    /\ LET api == ScrobbleRequestFinished(On("ScrobbleRequestFinished"), reply,
                    [error |-> InternalServerError, http |-> 0, body |-> CodeError])
           net == ScrobbleRequestFinished(On("ScrobbleRequestFinished"), reply,
                    [error |-> TimeoutError, http |-> 0, body |-> EmptyBody])
       IN /\ api.ev.res = "APIError"
          /\ \A id \in Range(reply.items) : Item(api.cache, id).error
          /\ net.ev.res \notin { "Success", "APIError" }
          /\ \A id \in Range(reply.items) : ~Item(net.cache, id).error

\* C20  Single-item rejection is terminal: when a submission response is an API
\* error and the batch held exactly one record, that record is removed from the
\* queue, whether or not it was error-flagged before, and is never submitted
\* again: no request issued in that step or outstanding afterwards carries it, every
\* request carries records of the queue only, and a record enters the queue under a
\* new identity only
C20_SingleRejection ==
  /\ \A reply \in Submissions : \A net \in AnyNets :
       LET st == ScrobbleRequestFinished(On("ScrobbleRequestFinished"), reply, net)
           batch == reply.items
       IN (st.ev.res = "APIError" /\ Len(batch) = 1) =>
            /\ batch[1] \notin Ids(st.cache)
            /\ st.ev.batch = << >>
            /\ \A r \in st.replies_ : batch[1] \notin Range(r.items)
            /\ Outside(st.cache, batch) = Outside(cache, batch)
  /\ \A reply \in Submissions : Range(reply.items) \subseteq Ids(cache)
  /\ Ids(cache) \subseteq 1..nadded
  /\ \A song \in Songs :
       LET st == Scrobble(UpdateNowPlaying(On("Scrobble"), song), song)
       IN /\ Ids(st.cache) \ Ids(cache) \subseteq (nadded + 1)..st.nadded
          /\ song.good => st.nadded > nadded

\* a record flagged by the rejection of its batch is in flight alone; the API error
\* for it removes it from the queue
C20_Witness ==
  \E reply \in Submissions :
    /\ Len(reply.items) = 1
    /\ Item(cache, reply.items[1]).error
    /\ LET st == ScrobbleRequestFinished(On("ScrobbleRequestFinished"), reply,
                   [error |-> InternalServerError, http |-> 0, body |-> CodeError])
       IN st.ev.res = "APIError" /\ reply.items[1] \notin Ids(st.cache)

-----------------------------------------------------------------------------
(* Convergence of the error isolation: a stored queue of listens of which the    *)
(* server rejects some, in a service that stays enabled, authenticated and       *)
(* online.  The server rejects every request that carries a listen it finds bad  *)
(* and accepts every other request.  Timers fire and replies arrive.             *)

\* records in the stored queue
MaxConverge == 3

\* the server rejects the listens of the song with incomplete metadata
Bad(it) == it.song = Untagged.id

StoredListen(n, song) == NewItem(n, song, StartTime)

ConvergeQueues ==
  UNION { { [i \in 1..n |-> StoredListen(i, songs[i])] : songs \in [1..n -> {Radio, Untagged}] } :
          n \in 2..MaxConverge }

InitConverge ==
  /\ offline = FALSE
  /\ submit_delay = 0
  /\ now = StartTime
  /\ \E c \in ConvergeQueues :
       Is(Constructor(StoredSession(3600, "ref", StartTime), c, TRUE))

\* the server's answer to a submission request
ServerNet(reply) ==
  IF \E id \in Range(reply.items) : Bad(Item(cache, id))
  THEN [error |-> InternalServerError, http |-> 0, body |-> CodeError]
  ELSE [error |-> NoError, http |-> 200, body |-> StatusOk]

ServerReply ==
  \E reply \in replies_ :
    /\ reply.kind = "scrobble"
    /\ Step(ScrobbleRequestFinished(On("ScrobbleRequestFinished"), reply, ServerNet(reply)))

NextConverge ==
  \/ RefreshTimeout
  \/ AuthReply(BatchTokenNets)
  \/ SubmitTimeout
  \/ ServerReply

\* the single-shot timer, once started, fires: weak fairness of SubmitTimeout, which
\* is enabled exactly while the timer is active
SubmitTimerFires ==
  ([]<>(~timer_submit_.active)) \/ ([]<><<SubmitTimeout>>_vars)

\* the reply of a request arrives (QNetworkReply::finished): weak fairness of
\* ServerReply, which is enabled exactly while a submission is outstanding
RepliesArrive ==
  ([]<>(Submissions = {})) \/ ([]<><<ServerReply>>_vars)

SpecConverge ==
  /\ InitConverge /\ [][NextConverge]_vars
  /\ SubmitTimerFires
  /\ RepliesArrive

\* the record is in the queue, flagged by the rejection of its batch
Blamed(id) == id \in Ids(cache) /\ Item(cache, id).error

\* a request carries this record alone
AloneInFlight(id) == \E r \in Submissions : r.items = << id >>

\* the records the handling of this reply removes from the queue
Removes(reply) ==
  Ids(cache) \ Ids(ScrobbleRequestFinished(On("ScrobbleRequestFinished"), reply,
                                           ServerNet(reply)).cache)

\* C21  Error-isolation convergence: after a batch of two or more records is
\* rejected with an API error, in a service that stays enabled, authenticated and
\* online, where timers fire, replies arrive and the server accepts good records and
\* rejects bad ones, every record of the batch is submitted in a request of its own
\* and leaves the queue: a bad record dropped by the API error for it alone, a good
\* record flushed by a success reply and never dropped
C21_IsolationConverges ==
  /\ \A id \in 1..MaxConverge : Blamed(id) ~> AloneInFlight(id)
  /\ \A id \in 1..MaxConverge : Blamed(id) ~> (id \notin Ids(cache))
  /\ [](\A reply \in Submissions : \A id \in Removes(reply) :
          IF Bad(Item(cache, id))
          THEN ResultOf(ServerNet(reply)) = "APIError" /\ reply.items = << id >>
          ELSE ResultOf(ServerNet(reply)) = "Success")
  /\ [][Ids(cache') # Ids(cache) =>
          \E reply \in Submissions : Ids(cache') = Ids(cache) \ Removes(reply)]_vars

\* a good record blamed with its batch is in flight alone while a bad record of the
\* same batch waits behind it
C21_Witness ==
  \E r \in Submissions : \E id \in Ids(cache) :
    /\ Len(r.items) = 1
    /\ Blamed(r.items[1]) /\ ~Bad(Item(cache, r.items[1]))
    /\ Blamed(id) /\ Bad(Item(cache, id)) /\ ~Item(cache, id).sent

-----------------------------------------------------------------------------
(* After a submission reply *)

\* the handling of this reply with this answer
Handled(reply, net) == ScrobbleRequestFinished(On("ScrobbleRequestFinished"), reply, net)

InitRetry ==
  /\ offline = FALSE
  /\ submit_delay = 0
  /\ now = StartTime
  /\ Is(Constructor(StoredSession(3600, "", StartTime), << >>, TRUE))

NextRetry ==
  \/ DoUpdateNowPlaying({Radio})
  \/ DoScrobble({Radio})
  \/ SubmitTimeout
  \/ NowPlayingReply(AcceptedNets)
  \/ ScrobbleReply(PipelineNets)
  \/ SetOffline
  \/ SetSubmitDelay

SpecRetry == InitRetry /\ [][NextRetry]_vars

\* the handler leaves the last-submit-error flag as it is
KeepsFlag(st) == st.submit_error_ = submit_error_

\* C23  Last-submit-error flag: false initially; a handled submission response sets
\* it to false exactly when it is a success and to true exactly when it is a
\* transport or server error or an API error (of a single item or of a batch); no
\* other event changes it; so the retry scheduled after a failed submission uses
\* the 30-second floor, and the immediate path stays closed while the flag is up
C23_SubmitErrorFlag ==
  /\ ~Constructor(store, cache, enabled_).submit_error_
  /\ \A reply \in Submissions : \A net \in ApiNets :
       LET st == Handled(reply, net)
       IN /\ st.submit_error_ = (st.ev.res # "Success")
          /\ st.ev.res # "Success" =>
               /\ st.ev.submits = 0
               /\ st.cache # << >> =>
                    st.timer_submit_ =
                      [active |-> TRUE,
                       interval |-> Max(submit_delay, kSubmitErrorFloorSecs) * kMsecPerSec]
  /\ \A song \in Songs :
       /\ KeepsFlag(UpdateNowPlaying(On("UpdateNowPlaying"), song))
       /\ KeepsFlag(Scrobble(On("Scrobble"), song))
  /\ KeepsFlag(ClearPlaying(On("ClearPlaying")))
  /\ KeepsFlag(Love(On("Love")))
  /\ KeepsFlag(Submit(On("Submit")))
  /\ KeepsFlag(Logout(On("Logout")))
  /\ KeepsFlag(LoadSession(On("LoadSession")))
  /\ KeepsFlag(RequestNewAccessToken(On("RefreshTimeout")))
  /\ \A e \in BOOLEAN :
       /\ KeepsFlag(ReloadSettings(On("ReloadSettings"), e))
       /\ KeepsFlag(Authenticate(On("Authenticate"), e))
       /\ KeepsFlag(StartSubmit(On("StartSubmit"), e))
  /\ \A rd \in Redirects : KeepsFlag(RedirectArrived(On("RedirectArrived"), rd))
  /\ \A reply \in replies_ \ Submissions : \A net \in AnyNets :
       KeepsFlag(ReplyFinished(reply, net))
  /\ submit_error_ =>
       LET st == StartSubmit(On("StartSubmit"), TRUE)
       IN /\ st.ev.submits = 0
          /\ (st.timer_submit_.active /\ ~timer_submit_.active) =>
               st.timer_submit_.interval =
                 Max(submit_delay, kSubmitErrorFloorSecs) * kMsecPerSec

\* the flag is up after a failed submission and the retry is in flight: its success
\* takes the flag down, its failure keeps it up
C23_Witness ==
  /\ submit_error_
  /\ \E reply \in Submissions :
       /\ ~Handled(reply, [error |-> NoError, http |-> 200, body |-> StatusOk]).submit_error_
       /\ Handled(reply, [error |-> TimeoutError, http |-> 0, body |-> EmptyBody]).submit_error_

\* C24  Submit() preconditions: when the service is disabled, the session is
\* unauthenticated or offline mode is on, Submit() is a no-op: it marks no record
\* sent, issues no request and leaves the in-flight flag, the queue, the
\* last-submit-error flag and the submit timer unchanged; the same holds when the
\* assembled batch is empty (no record of the queue is unsent)
C24_SubmitPreconditions ==
  LET st == Submit(On("Submit"))
  IN (\/ ~enabled_ \/ access_token_ = "" \/ offline
      \/ \A i \in 1..Len(cache) : cache[i].sent) =>
       /\ st.cache = cache
       /\ st.replies_ = replies_ /\ st.ev.reqs = << >>
       /\ st.submitted_ = submitted_
       /\ st.submit_error_ = submit_error_
       /\ st.timer_submit_ = timer_submit_
       /\ Unchanged(st)

\* records wait unsent in the queue of a disabled service with a session, online,
\* and Submit() leaves them so
C24_Witness ==
  /\ ~enabled_ /\ access_token_ # "" /\ ~offline
  /\ \E i \in 1..Len(cache) : ~cache[i].sent
  /\ Submit(On("Submit")).cache = cache
  /\ Submit(On("Submit")).ev.submits = 1

\* the records marked sent
SentIds == { id \in Ids(cache) : Item(cache, id).sent }

\* C25  Sent-flag discipline: in every reachable state (Submit() run only through
\* StartSubmit or the submit timer) the records with sent = true are exactly the
\* records of the one in-flight batch; when no submission is in flight no record of
\* the queue has sent = true; every record of a batch is marked sent when its
\* request is issued
C25_SentFlagDiscipline ==
  /\ Cardinality(Submissions) <= 1
  /\ SentIds = UNION { Range(r.items) : r \in Submissions }
  /\ submitted_ = (Submissions # {})
  /\ ~submitted_ => SentIds = {}
  /\ LET st == Submit(On("Submit"))
     IN \A r \in st.replies_ \ replies_ :
          /\ r.items = st.ev.batch
          /\ \A id \in Range(r.items) : Item(st.cache, id).sent

\* two records are in flight, marked sent, while a third waits unsent
C25_Witness ==
  \E r \in Submissions :
    /\ Len(r.items) = 2
    /\ SentIds = Range(r.items)
    /\ Len(cache) = 3 /\ ~cache[3].sent

\* the batch is the head of the queue
IsPrefix(items, c) ==
  /\ Len(items) <= Len(c)
  /\ \A i \in 1..Len(items) : items[i] = c[i].id

\* C27  FIFO removal: where Submit() runs only through StartSubmit or the submit
\* timer, each batch is a prefix of the queue (which is in insertion order), so
\* whenever a record is removed from the queue every record enqueued before it has
\* been removed already or is removed in the same step
C27_FifoRemoval ==
  /\ [](/\ \A r \in Submissions : IsPrefix(r.items, cache)
        /\ \A i, j \in 1..Len(cache) : i < j => cache[i].id < cache[j].id
        /\ Ids(cache) \subseteq 1..nadded)
  /\ [][\A id \in Ids(cache) \ Ids(cache') :
          \A before \in 1..nadded : before < id => before \notin Ids(cache')]_vars

\* the first of three records is in flight alone, after the batch it was in was
\* rejected, ahead of the two records enqueued after it
C27_Witness ==
  \E r \in Submissions :
    /\ Len(cache) = 3
    /\ r.items = << cache[1].id >>
    /\ cache[1].error /\ cache[2].error /\ ~cache[3].error

-----------------------------------------------------------------------------
(* The outcome of a login *)

\* the signals of the token reply for the request the redirect caused
SignalsOf(st, r, net) ==
  AuthenticateReplyFinished([st EXCEPT !.ev = NoEvent("AuthenticateReplyFinished")],
                            r, net).ev.auth

\* C26  Authentication outcome: every redirect arrival handled while a redirect
\* listener exists is followed by exactly one authentication-complete signal:
\* failure at once when the redirect has an error, is invalid or has no code;
\* otherwise one token request with grant authorization_code, whose reply gives
\* success or failure according to the exchange.  No redirect, an empty code
\* parameter included, ends without a signal or causes a refresh_token grant
C26_AuthenticationOutcome ==
  server_ # "null" =>
    \A rd \in Redirects :
      LET st == RedirectArrived(On("RedirectArrived"), rd)
          requests == st.replies_ \ replies_
      IN IF rd.error # "" \/ ~rd.valid \/ rd.has_error \/ ~rd.has_code
         THEN st.ev.auth = << FALSE >> /\ requests = {}
         ELSE /\ st.ev.auth = << >>
              /\ Cardinality(requests) = 1
              /\ \A r \in requests :
                   /\ r.kind = "auth" /\ r.grant = "authorization_code"
                   /\ \A net \in Nets(TokenBodies) :
                        SignalsOf(st, r, net) = << net \in SuccessTokenNets >>

-----------------------------------------------------------------------------
(* TidalStreamURLRequest (src/src/tidal/tidalstreamurlrequest.cpp).  The   *)
(* variable tidal holds the members of one request (reply_, tries_,         *)
(* need_login_), what it has emitted, and the state of the service it asks  *)
(* (authenticated(), login_sent(), oauth(), the stored credentials).  The   *)
(* service is not part of the class: its state changes freely.              *)

\* the model stops issuing stream-URL requests after MaxTries
MaxTries == 3

\* what GetReplyData() and the JSON of the reply come to: no data (lines
\* 157-164), data that fails a test of lines 166-295, data with a stream URL
ReplyData == {"empty", "invalid", "urls"}

\* an aborted reply finishes with OperationCanceledError: GetReplyData()
\* returns no data for it
AbortedData == "empty"

Services ==
  [authenticated : BOOLEAN, login_sent : BOOLEAN, oauth : BOOLEAN, credentials : BOOLEAN]

\* Cancel() has not been called
NotCancelled == [done |-> FALSE, emitted |-> 0, tries |-> 0, aborted |-> FALSE]

\* the constructor (lines 45-53)
TidalStreamURLRequest(service) ==
  [reply_ |-> "null", tries_ |-> 0, need_login_ |-> FALSE,
   emitted |-> << >>, login_asked |-> FALSE,
   started |-> FALSE, cancelled |-> NotCancelled,
   service |-> service]

Emit(t, signal) == [t EXCEPT !.emitted = Append(@, signal)]

\* the re-login test of line 158 without the bound on tries_
StreamURLReceived_AnyTry(t, data) ==
  IF t.reply_ = "null" THEN t
  ELSE LET u == [t EXCEPT !.reply_ = "null"]
       IN  IF data = "empty"
           THEN IF ~u.service.authenticated /\ u.service.login_sent
                THEN [u EXCEPT !.need_login_ = TRUE]
                ELSE Emit(u, "failure")
           ELSE IF data = "invalid" THEN Emit(u, "failure")
           ELSE Emit(u, "success")

\* StreamURLReceived() (lines 147-299)
StreamURLReceived(t, data) ==
  IF t.reply_ = "null" THEN t
  ELSE LET u == [t EXCEPT !.reply_ = "null"]
       IN  IF data = "empty"
           THEN IF ~u.service.authenticated /\ u.service.login_sent /\ u.tries_ <= 1
                THEN [u EXCEPT !.need_login_ = TRUE]
                ELSE Emit(u, "failure")
           ELSE IF data = "invalid" THEN Emit(u, "failure")
           ELSE Emit(u, "success")

\* GetStreamURL() (lines 110-145): a reply it replaces is disconnected first,
\* so its abort() is not handled
GetStreamURL(t) == [t EXCEPT !.tries_ = @ + 1, !.reply_ = "running"]

\* Process() (lines 79-97)
Process(t) ==
  IF ~t.service.authenticated
  THEN IF t.service.oauth THEN Emit(t, "failure")
       ELSE IF ~t.service.credentials THEN Emit(t, "failure")
       ELSE [t EXCEPT !.need_login_ = TRUE, !.login_asked = TRUE]
  ELSE GetStreamURL(t)

\* LoginComplete() (lines 65-77)
LoginComplete(t, success) ==
  IF ~t.need_login_ THEN t
  ELSE LET u == [t EXCEPT !.need_login_ = FALSE]
       IN  IF ~success THEN Emit(u, "failure") ELSE Process(u)

\* Cancel() (lines 99-108): abort() emits finished(), which is connected to
\* StreamURLReceived()
Cancel(t) ==
  IF t.reply_ = "running" THEN StreamURLReceived(t, AbortedData)
  ELSE Emit(t, "failure")

\* the request was cancelled: what it had emitted and issued before, and
\* whether a running reply was aborted
Cancelled(t) ==
  [done |-> TRUE, emitted |-> Len(t.emitted), tries |-> t.tries_,
   aborted |-> t.reply_ = "running"]

TidalAlone ==
  /\ offline = FALSE
  /\ submit_delay = 0
  /\ now = StartTime
  /\ Members(Constructed(EmptyStore, << >>))
  /\ collection = NotConstructed

scrobbler == << access_token_, token_type_, refresh_token_, expires_in_, login_time_,
                store, enabled_, cache, nadded, submitted_, submit_error_,
                timer_submit_, refresh_login_timer_, replies_, server_, song_playing_,
                scrobbled_, timestamp_, offline, submit_delay, now >>

TidalStep(t) ==
  /\ t.tries_ <= MaxTries
  /\ tidal' = t
  /\ UNCHANGED << scrobbler, collection >>

\* the one Process() call that starts the request
DoProcess ==
  /\ ~tidal.started
  /\ TidalStep([Process(tidal) EXCEPT !.started = TRUE])

\* the service's LoginComplete signal, for a login of this or another request
DoLoginComplete ==
  \E success \in BOOLEAN : TidalStep(LoginComplete(tidal, success))

\* the reply finishes
StreamURLReply ==
  /\ tidal.reply_ = "running"
  /\ \E data \in ReplyData : TidalStep(StreamURLReceived(tidal, data))

\* the service logs in and out and sends logins; its settings stay
ServiceChanges ==
  \E a, l \in BOOLEAN :
    /\ << a, l >> # << tidal.service.authenticated, tidal.service.login_sent >>
    /\ TidalStep([tidal EXCEPT !.service.authenticated = a, !.service.login_sent = l])

\* the owner cancels a started request that has not ended
DoCancel ==
  /\ tidal.started /\ ~tidal.cancelled.done /\ tidal.emitted = << >>
  /\ TidalStep([Cancel(tidal) EXCEPT !.cancelled = Cancelled(tidal)])

InitTidal ==
  /\ TidalAlone
  /\ \E service \in Services : tidal = TidalStreamURLRequest(service)

NextTidal == DoProcess \/ DoLoginComplete \/ StreamURLReply \/ ServiceChanges

SpecTidal == InitTidal /\ [][NextTidal]_vars

NextCancel == NextTidal \/ DoCancel

SpecCancel == InitTidal /\ [][NextCancel]_vars

\* C28 Tidal stream-URL request, cancellation is final: a cancelled request
\* has emitted exactly one signal since Cancel() was called, a StreamURLFailure,
\* has issued no request since, and, when Cancel() aborted its running reply,
\* is not waiting for a login.
C28_CancellationIsFinal ==
  tidal.cancelled.done =>
    /\ Len(tidal.emitted) = tidal.cancelled.emitted + 1
    /\ tidal.emitted[Len(tidal.emitted)] = "failure"
    /\ tidal.tries_ = tidal.cancelled.tries
    /\ tidal.cancelled.aborted => ~tidal.need_login_

-----------------------------------------------------------------------------
(* One request without cancellation.                                        *)

\* the request has ended: started, no reply outstanding, not waiting
Ended(t) == t.started /\ t.reply_ = "null" /\ ~t.need_login_

\* C29 Tidal stream-URL request, bounded re-login: a reply leaves the request
\* waiting for a login, with nothing emitted, only when it is empty, the
\* service is unauthenticated, a login has been sent and tries_ <= 1, and
\* every other reply emits exactly one result; an awaited login that succeeds
\* with the session authenticated issues exactly one request, so at most two
\* requests are issued; the request has ended exactly when it has emitted its
\* one result; LoginComplete changes nothing unless the request is waiting,
\* and a failed awaited login emits StreamURLFailure and issues no request.
C29_BoundedRelogin ==
  /\ tidal.tries_ <= 2
  /\ Len(tidal.emitted) <= 1
  /\ tidal.started => (Ended(tidal) <=> Len(tidal.emitted) = 1)
  /\ tidal.reply_ = "running" =>
       \A data \in ReplyData :
         LET u == StreamURLReceived(tidal, data)
             relogin == /\ data = "empty"
                        /\ ~tidal.service.authenticated
                        /\ tidal.service.login_sent
                        /\ tidal.tries_ <= 1
         IN  /\ u.reply_ = "null" /\ u.tries_ = tidal.tries_
             /\ u.need_login_ <=> relogin
             /\ relogin => u.emitted = tidal.emitted
             /\ ~relogin => /\ Len(u.emitted) = 1
                            /\ (u.emitted[1] = "success") <=> (data = "urls")
  /\ \A success \in BOOLEAN :
       LET u == LoginComplete(tidal, success)
       IN  /\ ~tidal.need_login_ => u = tidal
           /\ tidal.need_login_ /\ ~success =>
                /\ u.emitted = << "failure" >> /\ Ended(u)
                /\ u.tries_ = tidal.tries_
           /\ tidal.need_login_ /\ success /\ tidal.service.authenticated =>
                /\ u.tries_ = tidal.tries_ + 1 /\ u.reply_ = "running"
                /\ u.emitted = << >> /\ ~u.need_login_

\* the request ended after its second stream-URL request, issued after a
\* re-login
C29_Witness == tidal.tries_ = 2 /\ Len(tidal.emitted) = 1

-----------------------------------------------------------------------------
(* SCollection (src/src/collection/collection.cpp).  The variable           *)
(* collection holds the two pointers watcher_ and watcher_thread_, what the *)
(* watcher has been asked to do, and the operations that went through a     *)
(* null pointer.  Going through a null pointer is undefined: the process    *)
(* crashes there, or the call does nothing and the operation goes on.       *)

\* the member initialisers (lines 48-53), before the constructor's body
NewCollection ==
  [status |-> "new", watcher_ |-> "null", watcher_thread_ |-> "null",
   watcher |-> [paused |-> FALSE, scan |-> "none", reloaded |-> FALSE, stopped |-> FALSE],
   thread |-> "none", null_uses |-> {}]

\* what a call asks of the watcher
AskWatcher(w, call) ==
  CASE call = "ReloadSettingsAsync" -> [w EXCEPT !.reloaded = TRUE]
    [] call = "IncrementalScanAsync" -> [w EXCEPT !.scan = "incremental"]
    [] call = "FullScanAsync" -> [w EXCEPT !.scan = "full"]
    [] call = "SetRescanPausedAsync(true)" -> [w EXCEPT !.paused = TRUE]
    [] call = "SetRescanPausedAsync(false)" -> [w EXCEPT !.paused = FALSE]
    [] call = "Stop" -> [w EXCEPT !.stopped = TRUE]

\* watcher_->call() in operation op: the states it can leave
ThroughWatcher(col, op, call) ==
  IF col.watcher_ = "null"
  THEN { [col EXCEPT !.status = "crashed", !.null_uses = @ \cup {op}],
         [col EXCEPT !.null_uses = @ \cup {op}] }
  ELSE { [col EXCEPT !.watcher = AskWatcher(@, call)] }

\* watcher_thread_->exit() and wait() in operation op
ThroughThread(col, op) ==
  IF col.watcher_thread_ = "null"
  THEN { [col EXCEPT !.status = "crashed", !.null_uses = @ \cup {op}],
         [col EXCEPT !.null_uses = @ \cup {op}] }
  ELSE { [col EXCEPT !.thread = "exited"] }

\* ReloadSettings() (lines 109-113)
SCollection_ReloadSettings(col) == ThroughWatcher(col, "ReloadSettings", "ReloadSettingsAsync")

\* the constructor's body (lines 55-62): its last statement is ReloadSettings()
SCollection(col) ==
  { IF c.status = "crashed" THEN c ELSE [c EXCEPT !.status = "alive"] :
      c \in ThroughWatcher(col, "SCollection", "ReloadSettingsAsync") }

\* Init() (lines 73-99)
SCollection_Init(col) ==
  [col EXCEPT !.watcher_ = "created", !.watcher_thread_ = "created", !.thread = "started"]

\* the destructor (lines 66-71)
SCollection_Destructor(col) ==
  UNION { IF c.status = "crashed" THEN { c }
          ELSE { IF d.status = "crashed" THEN d ELSE [d EXCEPT !.status = "destroyed"] :
                   d \in ThroughThread(c, "~SCollection") } :
            c \in ThroughWatcher(col, "~SCollection", "Stop") }

CollectionAlone ==
  /\ offline = FALSE
  /\ submit_delay = 0
  /\ now = StartTime
  /\ Members(Constructed(EmptyStore, << >>))
  /\ tidal = NotConstructed

CollectionStep(outcomes) ==
  /\ \E c \in outcomes : collection' = c
  /\ UNCHANGED << scrobbler, tidal >>

Construct ==
  /\ collection.status = "new"
  /\ CollectionStep(SCollection(collection))

DoInit ==
  /\ collection.status = "alive"
  /\ CollectionStep({ SCollection_Init(collection) })

ReloadCollectionSettings ==
  /\ collection.status = "alive"
  /\ CollectionStep(SCollection_ReloadSettings(collection))

\* IncrementalScan() (line 101)
IncrementalScan ==
  /\ collection.status = "alive"
  /\ CollectionStep(ThroughWatcher(collection, "IncrementalScan", "IncrementalScanAsync"))

\* FullScan() (line 103)
FullScan ==
  /\ collection.status = "alive"
  /\ CollectionStep(ThroughWatcher(collection, "FullScan", "FullScanAsync"))

\* PauseWatcher() (line 105)
PauseWatcher ==
  /\ collection.status = "alive"
  /\ CollectionStep(ThroughWatcher(collection, "PauseWatcher", "SetRescanPausedAsync(true)"))

\* ResumeWatcher() (line 107)
ResumeWatcher ==
  /\ collection.status = "alive"
  /\ CollectionStep(ThroughWatcher(collection, "ResumeWatcher", "SetRescanPausedAsync(false)"))

Destruct ==
  /\ collection.status = "alive"
  /\ CollectionStep(SCollection_Destructor(collection))

InitCollection ==
  /\ CollectionAlone
  /\ collection = NewCollection

NextCollection ==
  \/ Construct \/ DoInit \/ ReloadCollectionSettings \/ IncrementalScan \/ FullScan
  \/ PauseWatcher \/ ResumeWatcher \/ Destruct

SpecCollection == InitCollection /\ [][NextCollection]_vars

\* C30 Collection watcher lifecycle: no operation of SCollection, the
\* constructor and the destructor included, has gone through watcher_ or
\* watcher_thread_ while it was null.
C30_WatcherUsedAfterInit == collection.null_uses = {}

====
